---- MODULE Spec2Model ----
(***************************************************************************)
(* The photo-catalog sync worker (pgs_sync): the reconciliation engine     *)
(* (sync_engine.py), the batch dispatcher with retries (worker.py) and the *)
(* catalog table (pgs_db/models/photos.py), over a small filesystem.       *)
(*                                                                         *)
(* The database is an SQLAlchemy session on a READ COMMITTED store: adds   *)
(* and ORM deletes stay pending until a flush, which every query (auto-    *)
(* flush) and every commit performs; a failed flush leaves the session     *)
(* unusable until rollback.  ImageMetadata is abstracted to the file's     *)
(* modification time (size and pixel dimensions decide nothing here).      *)
(***************************************************************************)
EXTENDS Integers, Sequences, FiniteSets, TLC

\* ------------------------------------------------------------------ bounds
MaxMtime == 2
MaxBatchLen == 2

\* ------------------------------------------------------- program constants
RetryAttempts == 3
max_batch_size == 100

\* Time is counted in ticks of half a second.
\* batch_timeout = 1.0 (seconds): the longest one collection lasts.
batch_timeout == 2
\* event_debounce_delay: float = 2.0 (seconds)
event_debounce_delay == 4
initial_sync_on_startup == TRUE

supported_extensions ==
    {".jpg", ".jpeg", ".png", ".gif", ".webp", ".bmp", ".tiff", ".tif", ".raw",
     ".cr2", ".nef", ".arw", ".dng", ".orf", ".rw2", ".pef", ".srw"}

\* ------------------------------------------------------------------ paths
\* The directory entries of the model's filesystem, under the storage root
\* /r.
PX == "/r/a/x.jpg"
PS == "/r/b/s.JPG"
PN == "/r/a/n.txt"
PT == "/r/t.jpg"
PD == "/r/a/sub.jpg/d.jpg"
PDdir == "/r/a/sub.jpg"

Locs == {PX, PS, PN, PT, PD}

\* Path.parts relative to the root.
Parts(p) ==
    CASE p = PX -> <<"a", "x.jpg">>
      [] p = PS -> <<"b", "s.JPG">>
      [] p = PN -> <<"a", "n.txt">>
      [] p = PT -> <<"t.jpg">>
      [] p = PD -> <<"a", "sub.jpg", "d.jpg">>
      [] p = PDdir -> <<"a", "sub.jpg">>

\* Path.name
Name(p) == Parts(p)[Len(Parts(p))]

\* Path.suffix
Suffix(p) ==
    CASE Name(p) = "x.jpg" -> ".jpg"
      [] Name(p) = "s.JPG" -> ".JPG"
      [] Name(p) = "n.txt" -> ".txt"
      [] Name(p) = "t.jpg" -> ".jpg"
      [] Name(p) = "d.jpg" -> ".jpg"
      [] Name(p) = "sub.jpg" -> ".jpg"

\* str.lower on the suffixes that occur
Lower(s) == IF s = ".JPG" THEN ".jpg" ELSE s

is_supported_image_file(p) == Lower(Suffix(p)) \in supported_extensions

\* PS may be a symbolic link to PX; every other entry is a regular file.
LinkTarget(p) == PX

NoFile == [kind |-> "none", mtime |-> 0]
RegFile(m) == [kind |-> "file", mtime |-> m]
SymLink == [kind |-> "link", mtime |-> 0]

MtimesOf(p) == IF p = PX THEN 1..MaxMtime ELSE {1}

Allowed(p) ==
    {NoFile} \cup {RegFile(m) : m \in MtimesOf(p)}
             \cup (IF p = PS THEN {SymLink} ELSE {})

RootKinds == {"dir", "file", "none"}

VARIABLES
    rootKind,   \* what the storage root is: a directory, a file, or missing
    disk,       \* the entries below the root: Locs -> NoFile | RegFile | SymLink
    catalog,    \* the committed rows of table photos
    sess,       \* the two sessions: "batch" (event mode) and "sync" (full sync)
    channel,    \* the event queue between watcher and consumer (FIFO)
    arrived,    \* the events queued and not yet dispatched and returned, in arrival order
    bpc,        \* consumer position: idle, collect, run, wait, done
    batch,      \* the batch being collected, then handed to the dispatcher
    idx,        \* next supported event of the batch to handle
    calls,      \* process_event_batch invocations for this batch
    fails,      \* ... of which raised
    opened,     \* sessions opened by the current process_event_batch call
    commitCalls,\* session.commit() calls of the current call
    rollbacks,  \* session.rollback() calls of the current call
    applied,    \* handlers run by the current call, in order, with their result
    bres,       \* how the last call / the dispatch ended
    spc,        \* full sync position: idle, loaded, scanned, commit, done
    existing,   \* full sync: existing_photos (rows loaded at the start)
    found,      \* full sync: found_file_paths
    stats,      \* full sync: SyncStats
    sres,       \* how the last full sync ended; twice: it followed a quiet one
    alone,      \* no batch step, fault, failure or disk change since the last full sync began
    raced,      \* a batch call and a full sync overlapped on a common path; the disk is as it was
    cfg,        \* SyncConfig: the settings read from the environment (SYNC_*)
    running,    \* SyncWorker.running
    wpc,        \* start(): new, initsync, watch, gather, shutdown, returned, raised
    observer,   \* the watchdog observer thread: new, started, stopped
    stops,      \* calls of watcher.stop_watching() that stopped and joined the observer
    health,     \* the health-server task: off, serving, ended
    ctask,      \* the _process_events task: off, loop, collect, debounce, nap, call, backoff, exited
    ptask,      \* the _periodic_sync task: off, loop, sleep, sync, exited
    elapsed,    \* ticks since batch_start_time, up to batch_timeout
    held,       \* ticks since the first event of the batch was received, up to the debounce delay
    slept,      \* debounce sleeps of the batch in hand
    ages,       \* ticks since each event of arrived was emitted, up to the debounce delay
    caught,     \* the loops that have caught an exception: "events", "periodic"
    pending,    \* events still queued of those that were when running was cleared
    isync,      \* how perform_initial_sync() ended: none, ok, failed
    mark,       \* the place in arrived of one event that is followed, 0 once it was dispatched
    monitor,    \* the HealthMonitor: what it is attached to, its counters and its window
    world,      \* what the monitor looks at: the UTC date, the database, the observer thread
    resp,       \* what the last request to the monitor's endpoints was answered
    seen        \* the last notification the observer delivered, and how its callback ended

vars == <<rootKind, disk, catalog, sess, channel, arrived, bpc, batch, idx,
          calls, fails, opened, commitCalls, rollbacks, applied, bres, spc,
          existing, found, stats, sres, alone, raced,
          cfg, running, wpc, observer, stops, health, ctask, ptask, elapsed,
          held, slept, ages, caught, pending, isync, mark, monitor, world, resp, seen>>

\* The worker's own state: what start(), the two loops and the clock change,
\* and a step inside the engine leaves alone.
wvars == <<cfg, running, wpc, observer, stops, health, ctask, ptask, elapsed,
           held, slept, ages, caught, pending, isync, mark, monitor, world, resp, seen>>

\* ------------------------------------------------------------- filesystem
\* The storage root is usable: exists() and is_dir().
RootOk == rootKind = "dir"

\* Path.is_file(): follows symbolic links; PDdir is a directory.
IsFile(p) ==
    /\ RootOk
    /\ p # PDdir
    /\ \/ disk[p].kind = "file"
       \/ disk[p].kind = "link" /\ disk[LinkTarget(p)].kind = "file"

\* Path.exists(): every entry of the model is a file or a link to one.
Exists(p) == IsFile(p)

\* Path.resolve(): symbolic links expanded.
Resolve(p) == IF disk[p].kind = "link" THEN LinkTarget(p) ELSE p

\* stat().st_mtime, following links
StatMtime(p) ==
    IF disk[p].kind = "link" THEN disk[LinkTarget(p)].mtime ELSE disk[p].mtime

\* ---------------------------------------------------------------- catalog
\* A row of table photos (PLPhoto) has an id, a file_path, a filename, a
\* category, a modification time and a title.  A pending row has id 0 until
\* its INSERT.
\* generate_title_from_filename on the names that occur: the stem, with no
\* camera prefix, date, time or sequence number to strip, in title case.
generate_title_from_filename(fn) ==
    CASE fn = "x.jpg" -> "X"
      [] fn = "s.JPG" -> "S"
      [] fn = "n.txt" -> "N"
      [] fn = "t.jpg" -> "T"
      [] fn = "d.jpg" -> "D"
      [] fn = "sub.jpg" -> "Sub"

\* A row of table photos as both modes build it (PLPhoto(...), lines 169-178
\* and 253-262): the title is generated from the file's name.
PhotoRow(i, fp, fn, cat, m) ==
    [id |-> i, file_path |-> fp, filename |-> fn, category |-> cat, mtime |-> m,
     title |-> generate_title_from_filename(fn)]

\* The title is regenerated whatever it was.
RegenerateTitleAlways(row, name) ==
    [row EXCEPT !.title = generate_title_from_filename(name)]

\* "Regenerate title if it wasn't manually set" (lines 196-200 and 296-297),
\* on the row whose filename has just been assigned; "" is no title (None or
\* the empty string).
RegenerateTitle(row, name) ==
    IF row.title = "" \/ row.title = generate_title_from_filename(row.filename)
    THEN [row EXCEPT !.title = generate_title_from_filename(name)]
    ELSE row

Ids(rows) == {r.id : r \in rows}
PathsOf(rows) == {r.file_path : r \in rows}

\* ---------------------------------------------------------------- session
Sessions == {"batch", "sync"}

\* A closed session: nothing pending (new, dirty, pdel), nothing flushed
\* (ins, upd, del), usable.
ClosedSession ==
    [open |-> FALSE, broken |-> FALSE, new |-> <<>>, dirty |-> {}, pdel |-> {},
     ins |-> {}, upd |-> {}, del |-> {}]

OpenSession == [ClosedSession EXCEPT !.open = TRUE]

\* What a SELECT of session se sees: the committed rows (READ COMMITTED) with
\* the session's own flushed writes applied.
ViewOf(se, cat) ==
    {r \in cat : r.id \notin se.del /\ r.id \notin Ids(se.upd)}
        \cup {u \in se.upd : u.id \in Ids(cat) /\ u.id \notin se.del}
        \cup se.ins

SeqRange(q) == {q[i] : i \in 1..Len(q)}

\* The flush of se would wait for a row lock (or a unique-index entry) that
\* the other session's uncommitted writes hold.
Blocked(se, cat, oth) ==
    \/ \E n \in SeqRange(se.new) :
          \/ n.file_path \in PathsOf(oth.ins)
          \/ \E c \in cat : /\ c.file_path = n.file_path
                            /\ c.id \in oth.del
                            /\ c.id \notin se.del
    \/ \E i \in Ids(se.dirty) \cup se.pdel : i \in oth.del \cup Ids(oth.upd)

\* The UNIQUE constraint on file_path never refuses an INSERT.
UniqueViolationOff(se, cat) == FALSE

\* The unique constraint on file_path (models/photos.py:17): an INSERT whose
\* file_path is already visible, or is inserted twice by this flush.
UniqueViolation(se, cat) ==
    \/ \E i \in 1..Len(se.new) : se.new[i].file_path \in PathsOf(ViewOf(se, cat))
    \/ \E i, j \in 1..Len(se.new) : i < j /\ se.new[i].file_path = se.new[j].file_path

\* An ORM UPDATE that matches no row (StaleDataError).
StaleUpdate(se, cat) == \E d \in se.dirty : d.id \notin Ids(ViewOf(se, cat))

\* The session after a failed flush: its transaction is rolled back and the
\* session refuses everything until rollback().
FailedSession == [OpenSession EXCEPT !.broken = TRUE]

RECURSIVE FreshIds(_, _)
\* default=lambda: str(uuid4()) (models/photos.py:13): n ids that nothing
\* holds.  An id that no row and no session refers to cannot be told from a
\* new random one, so the smallest free numbers stand for them.
FreshIds(used, n) ==
    IF n = 0 THEN <<>>
    ELSE LET i == CHOOSE k \in 1..(Cardinality(used) + 1) :
                      k \notin used /\ \A j \in 1..(k - 1) : j \in used
         IN <<i>> \o FreshIds(used \cup {i}, n - 1)

\* Session.flush(): UPDATEs and INSERTs, then DELETEs.  used: the ids some
\* row or session holds.  Result: ok, the session after.
FlushOf(se, cat, used) ==
    IF UniqueViolation(se, cat) \/ StaleUpdate(se, cat)
    THEN [ok |-> FALSE, se |-> FailedSession]
    ELSE LET dirtyIds == Ids(se.dirty)
             fresh == FreshIds(used, Len(se.new))
             newRows == {[se.new[i] EXCEPT !.id = fresh[i]] : i \in 1..Len(se.new)}
             ins1 == {r \in se.ins : r.id \notin dirtyIds}
                       \cup {d \in se.dirty : d.id \in Ids(se.ins)}
                       \cup newRows
             upd1 == {u \in se.upd : u.id \notin dirtyIds}
                       \cup {d \in se.dirty : d.id \notin Ids(se.ins)}
         IN [ok |-> TRUE,
             se |-> [se EXCEPT !.new = <<>>, !.dirty = {}, !.pdel = {},
                               !.ins = {r \in ins1 : r.id \notin se.pdel},
                               !.upd = {u \in upd1 : u.id \notin se.pdel},
                               !.del = se.del \cup (se.pdel \cap Ids(cat))]]

\* The table after COMMIT of a flushed session.
CommitOf(se, cat) == ViewOf(se, cat)

\* ----------------------------------------------------------------- events
EventTypes == {"created", "modified", "deleted", "moved"}

\* The paths events are about: two supported ones (PS may be a link) and an
\* unsupported one, which the engine filters out whatever the event type.
EventPaths == {PX, PS, PN}

\* PhotoDirectoryEventHandler._extract_category_from_path: the first part of
\* the path relative to the storage root.
WatcherCategory(p) == Parts(p)[1]

\* PhotoDirectoryEventHandler._queue_event
FileEvent(t, p) == [event_type |-> t, file_path |-> p, category |-> WatcherCategory(p)]

Events ==
    {FileEvent(t, p) : t \in EventTypes, p \in {q \in EventPaths : is_supported_image_file(q)}}
        \cup {FileEvent("created", p) : p \in EventPaths}

RECURSIVE SeqsUpTo(_, _)
SeqsUpTo(S, n) ==
    IF n = 0 THEN {<<>>}
    ELSE LET shorter == SeqsUpTo(S, n - 1)
         IN shorter \cup {Append(q, e) : q \in {x \in shorter : Len(x) = n - 1}, e \in S}

Batches == SeqsUpTo(Events, MaxBatchLen)

RECURSIVE SelectEvents(_)
\* supported_events = [event for event in events if self._is_supported_file(...)]
SelectEvents(evs) ==
    IF evs = <<>> THEN <<>>
    ELSE IF is_supported_image_file(Head(evs).file_path)
         THEN <<Head(evs)>> \o SelectEvents(Tail(evs))
         ELSE SelectEvents(Tail(evs))

\* ----------------------------------------------------------- the handlers
\* Faults a handler can meet: "db" (a statement fails, the session stays
\* usable: for example no connection could be obtained), "dbkill" (the
\* statement fails and the transaction is lost), "stat" (the file vanishes
\* between exists() and stat()).
HandlerFaults == {"none", "db", "dbkill", "stat"}

\* A handler's result: exc (an exception leaves the handler), the session
\* after, did (what the handler did), hit (the given fault struck), flushed
\* (a query ran, after autoflush), row (what the query found).
Outcome(exc, se, did, hit, flushed) ==
    [exc |-> exc, se |-> se, did |-> did, hit |-> hit, flushed |-> flushed, row |-> {}]

\* SyncEngine._get_photo_by_path: autoflush, then SELECT ... WHERE file_path
\* = key.  row is the set of rows found (at most one).
Lookup(se, cat, used, key, fault) ==
    IF se.broken THEN Outcome(TRUE, se, "dberror", FALSE, FALSE)
    ELSE IF fault = "db" THEN Outcome(TRUE, se, "dberror", TRUE, FALSE)
    ELSE IF fault = "dbkill" THEN Outcome(TRUE, FailedSession, "dberror", TRUE, FALSE)
    ELSE LET f == FlushOf(se, cat, used)
         IN IF ~f.ok THEN Outcome(TRUE, f.se, "dberror", FALSE, TRUE)
            ELSE [Outcome(FALSE, f.se, "found", FALSE, TRUE)
                    EXCEPT !.row = {r \in ViewOf(f.se, cat) : r.file_path = key}]

\* ... without its return for a path that has a row already.
HandleCreatedAddsAgain(se, cat, used, e, fault) ==
    IF ~Exists(e.file_path) THEN Outcome(FALSE, se, "gone", FALSE, FALSE)
    ELSE LET l == Lookup(se, cat, used, e.file_path, fault)
         IN IF l.exc THEN l
            ELSE IF fault = "stat" THEN [l EXCEPT !.exc = TRUE, !.did = "oserror", !.hit = TRUE]
            ELSE [l EXCEPT !.did = "added",
                           !.se.new = Append(@, PhotoRow(0, Resolve(e.file_path),
                                                          Name(e.file_path), e.category,
                                                          StatMtime(e.file_path)))]

\* SyncEngine._handle_file_created
HandleCreated(se, cat, used, e, fault) ==
    IF ~Exists(e.file_path) THEN Outcome(FALSE, se, "gone", FALSE, FALSE)
    ELSE LET l == Lookup(se, cat, used, e.file_path, fault)
         IN IF l.exc THEN l
            ELSE IF l.row # {} THEN [l EXCEPT !.did = "exists"]
            ELSE IF fault = "stat" THEN [l EXCEPT !.exc = TRUE, !.did = "oserror", !.hit = TRUE]
            ELSE [l EXCEPT !.did = "added",
                           !.se.new = Append(@, PhotoRow(0, Resolve(e.file_path),
                                                          Name(e.file_path), e.category,
                                                          StatMtime(e.file_path)))]

\* SyncEngine._handle_file_modified
HandleModified(se, cat, used, e, fault) ==
    IF ~Exists(e.file_path) THEN Outcome(FALSE, se, "gone", FALSE, FALSE)
    ELSE LET l == Lookup(se, cat, used, e.file_path, fault)
         IN IF l.exc THEN l
            ELSE IF l.row = {}
                 THEN [HandleCreated(l.se, cat, used \cup Ids(l.se.ins), e, fault)
                         EXCEPT !.flushed = TRUE]
            ELSE IF fault = "stat" THEN [l EXCEPT !.exc = TRUE, !.did = "oserror", !.hit = TRUE]
            ELSE LET row == CHOOSE r \in l.row : TRUE
                 IN IF row.mtime = StatMtime(e.file_path) THEN [l EXCEPT !.did = "same"]
                    ELSE [l EXCEPT !.did = "updated",
                                   !.se.dirty = @ \cup {RegenerateTitle([row EXCEPT
                                        !.filename = Name(e.file_path),
                                        !.category = e.category,
                                        !.mtime = StatMtime(e.file_path)],
                                        Name(e.file_path))}]

\* SyncEngine._handle_file_deleted
HandleDeleted(se, cat, used, e, fault) ==
    LET l == Lookup(se, cat, used, e.file_path, fault)
    IN IF l.exc THEN l
       ELSE IF l.row = {} THEN [l EXCEPT !.did = "absent"]
       ELSE [l EXCEPT !.did = "deleted", !.se.pdel = @ \cup Ids(l.row)]

\* SyncEngine._handle_file_moved
HandleMoved(se, cat, used, e, fault) == HandleDeleted(se, cat, used, e, fault)

\* The dispatch on event_type in process_event_batch.
Handle(se, cat, used, e, fault) ==
    CASE e.event_type = "created" -> HandleCreated(se, cat, used, e, fault)
      [] e.event_type = "modified" -> HandleModified(se, cat, used, e, fault)
      [] e.event_type = "deleted" -> HandleDeleted(se, cat, used, e, fault)
      [] e.event_type = "moved" -> HandleMoved(se, cat, used, e, fault)

\* The ids that a committed row, a session or the full sync's loaded rows
\* hold.
UsedIds ==
    Ids(catalog) \cup Ids(existing)
        \cup UNION {Ids(sess[x].ins) \cup Ids(sess[x].upd) \cup Ids(sess[x].dirty)
                      \cup sess[x].del \cup sess[x].pdel : x \in Sessions}

\* --------------------------------------------------------------- the walk
\* storage_path.iterdir(): the children of the root.
RootEntries == {"/r/a", "/r/b", PT}

\* Path.is_dir() of a child of the root.
IsDir(c) == RootOk /\ c \in {"/r/a", "/r/b"}

\* category_dir.name
DirName(c) == IF c = "/r/a" THEN "a" ELSE "b"

\* Whether the entry is there at all (a dangling link is).
Present(p) == IF p = PDdir THEN disk[PD].kind # "none" ELSE disk[p].kind # "none"

\* category_dir.iterdir()
DirEntries(c) ==
    {p \in (IF c = "/r/a" THEN {PX, PN, PDdir} ELSE IF c = "/r/b" THEN {PS} ELSE {}) :
        Present(p)}

\* The walk without the extension test.
ScanSetAnyExtension ==
    {it \in {<<c, p>> : c \in {d \in RootEntries : IsDir(d)}, p \in {PX, PN, PDdir, PS}} :
        /\ it[2] \in DirEntries(it[1])
        /\ IsFile(it[2])}

\* The files the two nested loops reach (lines 141-151), with their category
\* directory.
ScanSet ==
    {it \in {<<c, p>> : c \in {d \in RootEntries : IsDir(d)}, p \in {PX, PN, PDdir, PS}} :
        /\ it[2] \in DirEntries(it[1])
        /\ IsFile(it[2])
        /\ is_supported_image_file(it[2])}

\* ------------------------------------------------------------- dispatcher
\* The paths a full sync in progress deals with: those of the rows it loaded
\* and of the files its walk reaches.
SyncPaths == PathsOf(existing) \cup {Resolve(it[2]) : it \in ScanSet}

\* A process_event_batch call and a full sync are both in progress, and the
\* batch has an event about a path the full sync deals with.
Racing ==
    /\ bpc = "run"
    /\ spc \in {"loaded", "scanned", "commit"}
    /\ \E i \in 1..Len(batch) :
          {batch[i].file_path, Resolve(batch[i].file_path)} \cap SyncPaths # {}

\* The event types the watcher has a callback for.
WatcherEventTypes == {"created", "modified", "deleted"}

\* PhotoDirectoryEventHandler.on_created / on_modified / on_deleted with
\* _queue_event: an event about a supported file is put on the queue.
QueueEvent(t, p) ==
    /\ t \in WatcherEventTypes
    /\ is_supported_image_file(p)
    /\ bpc \in {"idle", "collect"}
    /\ Len(arrived) < MaxBatchLen
    /\ channel' = Append(channel, FileEvent(t, p))
    /\ arrived' = Append(arrived, FileEvent(t, p))
    /\ UNCHANGED <<rootKind, disk, catalog, sess, bpc, batch, idx, calls, fails,
                   opened, commitCalls, rollbacks, applied, bres, spc, existing,
                   found, stats, sres, alone, raced>>

\* ... with "events_batch = [event]" for the append: the batch is the event
\* taken last.
CollectEventKeepsLast ==
    /\ bpc \in {"idle", "collect"}
    /\ channel # <<>>
    /\ Len(batch) < cfg.max_batch_size
    /\ batch' = <<Head(channel)>>
    /\ channel' = Tail(channel)
    /\ bpc' = "collect"
    /\ UNCHANGED <<rootKind, disk, catalog, sess, arrived, idx, calls, fails,
                   opened, commitCalls, rollbacks, applied, bres, spc, existing,
                   found, stats, sres, alone, raced>>

\* ... with a batch that may grow one beyond max_batch_size.
CollectEventOneOver ==
    /\ bpc \in {"idle", "collect"}
    /\ channel # <<>>
    /\ Len(batch) <= cfg.max_batch_size
    /\ batch' = Append(batch, Head(channel))
    /\ channel' = Tail(channel)
    /\ bpc' = "collect"
    /\ UNCHANGED <<rootKind, disk, catalog, sess, arrived, idx, calls, fails,
                   opened, commitCalls, rollbacks, applied, bres, spc, existing,
                   found, stats, sres, alone, raced>>

\* _collect_event_batch, one pass of its loop: event_queue.get() hands over
\* the oldest queued event, which is appended to events_batch.
CollectEvent ==
    /\ bpc \in {"idle", "collect"}
    /\ channel # <<>>
    /\ Len(batch) < cfg.max_batch_size
    /\ batch' = Append(batch, Head(channel))
    /\ channel' = Tail(channel)
    /\ bpc' = "collect"
    /\ UNCHANGED <<rootKind, disk, catalog, sess, arrived, idx, calls, fails,
                   opened, commitCalls, rollbacks, applied, bres, spc, existing,
                   found, stats, sres, alone, raced>>

\* The exception leaves process_event_batch (lines 91-94): rollback, the
\* session is released, and _process_event_batch_with_retry either sleeps
\* retry_delay before the next attempt or gives the batch up.
RaiseFromCallOnceMore ==
    /\ rollbacks' = rollbacks + 1
    /\ fails' = fails + 1
    /\ bpc' = IF calls <= RetryAttempts THEN "wait" ELSE "done"
    /\ bres' = IF calls <= RetryAttempts THEN "raised" ELSE "dropped"

RaiseFromCall ==
    /\ rollbacks' = rollbacks + 1
    /\ fails' = fails + 1
    /\ bpc' = IF calls < RetryAttempts THEN "wait" ELSE "done"
    /\ bres' = IF calls < RetryAttempts THEN "raised" ELSE "dropped"

\* process_event_batch(b) entered as the n-th attempt, with a session opened
\* whether or not an event of b is about a supported file.
BeginCallAlwaysOpens(b, n) ==
    /\ batch' = b
    /\ calls' = n
    /\ applied' = <<>>
    /\ commitCalls' = 0
    /\ rollbacks' = 0
    /\ alone' = FALSE
    /\ opened' = 1
    /\ idx' = 1
    /\ bpc' = "run"
    /\ bres' = "running"
    /\ sess' = [sess EXCEPT !["batch"] = OpenSession]

\* process_event_batch(b) is entered as the n-th attempt for b (lines 57-72).
BeginCall(b, n) ==
    /\ batch' = b
    /\ calls' = n
    /\ applied' = <<>>
    /\ commitCalls' = 0
    /\ rollbacks' = 0
    /\ alone' = FALSE
    /\ IF SelectEvents(b) = <<>>
       THEN /\ opened' = 0
            /\ idx' = 0
            /\ bpc' = "done"
            /\ bres' = "ok"
            /\ sess' = sess
       ELSE /\ opened' = 1
            /\ idx' = 1
            /\ bpc' = "run"
            /\ bres' = "running"
            /\ sess' = [sess EXCEPT !["batch"] = OpenSession]

\* _process_events: the collected batch goes to
\* _process_event_batch_with_retry, whose first attempt begins.
DispatchCollected ==
    /\ bpc = "collect"
    /\ RetryAttempts > 0
    /\ BeginCall(batch, 1)
    /\ fails' = 0
    /\ UNCHANGED <<rootKind, disk, catalog, channel, arrived, spc, existing,
                   found, stats, sres, raced>>

\* _process_event_batch_with_retry(b) called with any list of events, as the
\* tests call it: the first attempt.
Dispatch(b) ==
    /\ bpc = "idle"
    /\ channel = <<>>
    /\ RetryAttempts > 0
    /\ BeginCall(b, 1)
    /\ fails' = 0
    /\ UNCHANGED <<rootKind, disk, catalog, channel, arrived, spc, existing,
                   found, stats, sres, raced>>

\* ... and the next attempt, after the retry_delay sleep.
Retry ==
    /\ bpc = "wait"
    /\ BeginCall(batch, calls + 1)
    /\ UNCHANGED <<rootKind, disk, catalog, channel, arrived, fails, spc,
                   existing, found, stats, sres, raced>>

\* ... where the first failure is raised to _process_events, with no retry.
DispatchReturnAfterFirstFailure ==
    /\ bpc \in {"wait", "done"}
    /\ bpc' = "idle"
    /\ batch' = <<>>
    /\ arrived' = channel
    /\ idx' = 0
    /\ calls' = 0
    /\ fails' = 0
    /\ opened' = 0
    /\ commitCalls' = 0
    /\ rollbacks' = 0
    /\ applied' = <<>>
    /\ bres' = "none"
    /\ UNCHANGED <<rootKind, disk, catalog, sess, channel, spc, existing,
                   found, stats, sres, alone, raced>>

\* ... and the events of a batch that was given up go back on the queue.
DispatchReturnRequeues ==
    /\ bpc = "done"
    /\ bpc' = "idle"
    /\ batch' = <<>>
    /\ channel' = IF bres = "dropped" THEN channel \o batch ELSE channel
    /\ arrived' = channel'
    /\ idx' = 0
    /\ calls' = 0
    /\ fails' = 0
    /\ opened' = 0
    /\ commitCalls' = 0
    /\ rollbacks' = 0
    /\ applied' = <<>>
    /\ bres' = "none"
    /\ UNCHANGED <<rootKind, disk, catalog, sess, spc, existing,
                   found, stats, sres, alone, raced>>

\* _process_event_batch_with_retry returns, or raises the last exception, to
\* _process_events, which goes on to collect the next batch.
DispatchReturn ==
    /\ bpc = "done"
    /\ bpc' = "idle"
    /\ batch' = <<>>
    /\ arrived' = channel
    /\ idx' = 0
    /\ calls' = 0
    /\ fails' = 0
    /\ opened' = 0
    /\ commitCalls' = 0
    /\ rollbacks' = 0
    /\ applied' = <<>>
    /\ bres' = "none"
    /\ UNCHANGED <<rootKind, disk, catalog, sess, channel, spc, existing,
                   found, stats, sres, alone, raced>>

\* The loop takes the events from the last to the first.
EventAtFromEnd(evs, i) == evs[Len(evs) + 1 - i]

\* for event in supported_events (line 74): the i-th event handled.
EventAt(evs, i) == evs[i]

\* The loop stops at the first handler that raises.
LoopStopsOnError(r) == ~r.exc

\* except Exception (lines 84-86): whatever the handler raised is logged and
\* the loop goes on to the next event.
LoopGoesOn(r) == TRUE

\* One pass of the loop over supported_events (lines 74-86): the handler of
\* the next event runs.
HandleEvent(fault) ==
    /\ bpc = "run"
    /\ idx <= Len(SelectEvents(batch))
    /\ LET e == EventAt(SelectEvents(batch), idx)
           r == Handle(sess["batch"], catalog, UsedIds, e, fault)
       IN /\ fault = "none" \/ r.hit
          /\ r.flushed => ~Blocked(sess["batch"], catalog, sess["sync"])
          /\ disk' = IF fault = "stat" THEN [disk EXCEPT ![e.file_path] = NoFile] ELSE disk
          /\ applied' = Append(applied, [ev |-> e, res |-> r.did])
          /\ IF LoopGoesOn(r)
             THEN /\ sess' = [sess EXCEPT !["batch"] = r.se]
                  /\ idx' = idx + 1
                  /\ UNCHANGED <<bpc, bres, rollbacks, fails>>
             ELSE /\ sess' = [sess EXCEPT !["batch"] = ClosedSession]
                  /\ idx' = idx
                  /\ RaiseFromCall
    /\ alone' = FALSE
    /\ raced' = (raced \/ Racing)
    /\ UNCHANGED <<rootKind, catalog, channel, arrived, batch, calls, opened,
                   commitCalls, spc, existing, found, stats, sres>>
    /\ UNCHANGED wvars

\* session.commit() after the loop (line 88): flush, then COMMIT.
CommitBatch(fault) ==
    /\ bpc = "run"
    /\ idx > Len(SelectEvents(batch))
    /\ fault \in {"none", "db"}
    /\ commitCalls' = commitCalls + 1
    /\ alone' = FALSE
    /\ raced' = (raced \/ Racing)
    /\ LET se == sess["batch"]
           f == FlushOf(se, catalog, UsedIds)
       IN IF se.broken \/ fault = "db" \/ ~f.ok
          THEN /\ fault = "db" => ~se.broken
               /\ ~se.broken /\ fault = "none" => ~Blocked(se, catalog, sess["sync"])
               /\ RaiseFromCall
               /\ UNCHANGED catalog
          ELSE /\ ~Blocked(se, catalog, sess["sync"])
               /\ catalog' = CommitOf(f.se, catalog)
               /\ bpc' = "done"
               /\ bres' = "ok"
               /\ UNCHANGED <<rollbacks, fails>>
    /\ sess' = [sess EXCEPT !["batch"] = ClosedSession]
    /\ UNCHANGED <<rootKind, disk, channel, arrived, batch, idx, calls, opened,
                   applied, spc, existing, found, stats, sres>>
    /\ UNCHANGED wvars

\* ... where what a handler raises is logged and the commit follows, as in a
\* batch.
HandlerErrorSwallowed(r) == FALSE

\* process_file_event has no try around the handler but the one whose except
\* clause rolls back and raises (lines 39-55).
HandlerErrorRaises(r) == r.exc

\* process_file_event(e) (lines 26-55), from its call to its return or
\* raise: the extension test, a session of its own, the handler of the
\* event's type, the commit; fault strikes the handler, cfault the commit.
ProcessFileEvent(e, fault, cfault) ==
    /\ bpc = "idle"
    /\ channel = <<>>
    /\ cfault \in {"none", "db"}
    /\ batch' = <<e>>
    /\ calls' = 1
    /\ alone' = FALSE
    /\ bpc' = "done"
    /\ IF ~is_supported_image_file(e.file_path)
       THEN /\ fault = "none" /\ cfault = "none"
            /\ opened' = 0
            /\ idx' = 0
            /\ applied' = <<>>
            /\ commitCalls' = 0
            /\ rollbacks' = 0
            /\ fails' = 0
            /\ bres' = "ok"
            /\ UNCHANGED <<disk, catalog>>
       ELSE LET r == Handle(OpenSession, catalog, UsedIds, e, fault)
                f == FlushOf(r.se, catalog, UsedIds)
            IN /\ fault = "none" \/ r.hit
               /\ opened' = 1
               /\ idx' = 1
               /\ applied' = <<[ev |-> e, res |-> r.did]>>
               /\ disk' = IF fault = "stat" THEN [disk EXCEPT ![e.file_path] = NoFile]
                          ELSE disk
               /\ IF HandlerErrorRaises(r)
                  THEN /\ cfault = "none"
                       /\ commitCalls' = 0
                       /\ rollbacks' = 1
                       /\ fails' = 1
                       /\ bres' = "raised"
                       /\ UNCHANGED catalog
                  ELSE /\ commitCalls' = 1
                       /\ IF r.se.broken \/ cfault = "db" \/ ~f.ok
                          THEN /\ rollbacks' = 1
                               /\ fails' = 1
                               /\ bres' = "raised"
                               /\ UNCHANGED catalog
                          ELSE /\ rollbacks' = 0
                               /\ fails' = 0
                               /\ bres' = "ok"
                               /\ catalog' = CommitOf(f.se, catalog)
    /\ sess' = [sess EXCEPT !["batch"] = ClosedSession]
    /\ UNCHANGED <<rootKind, channel, arrived, spc, existing, found, stats, sres, raced>>
    /\ UNCHANGED wvars

\* -------------------------------------------------------------- full sync
SyncStats(sc, ad, up, rm, er) ==
    [files_scanned |-> sc, files_added |-> ad, files_updated |-> up,
     files_removed |-> rm, errors |-> er]

\* iterdir() promises no order.
Orders(S) ==
    {q \in [1..Cardinality(S) -> S] : \A i, j \in 1..Cardinality(S) : q[i] = q[j] => i = j}

\* The inner loop's body with found_file_paths.add inside the try, after the
\* extraction: a file whose extraction fails is not among the found.
ScanFileFoundLate(st, it, vanish) ==
    LET c == it[1]
        p == it[2]
        fp == Resolve(p)
        st0 == [st EXCEPT !.stats.files_scanned = @ + 1]
        st1 == [st0 EXCEPT !.found = @ \cup {fp}]
        hit == {r \in st.ex : r.file_path = fp}
    IN IF p \in vanish THEN [st0 EXCEPT !.stats.errors = @ + 1]
       ELSE IF hit = {}
       THEN [st1 EXCEPT !.se.new = Append(@, PhotoRow(0, fp, Name(p), DirName(c),
                                                     StatMtime(p))),
                        !.stats.files_added = @ + 1]
       ELSE LET row == CHOOSE r \in hit : TRUE
                upd == RegenerateTitle([row EXCEPT !.filename = Name(p),
                                                   !.category = DirName(c),
                                                   !.mtime = StatMtime(p)], Name(p))
            IN IF row.mtime # StatMtime(p)
               THEN [st1 EXCEPT !.ex = (@ \ {row}) \cup {upd},
                                !.se.dirty = {d \in @ : d.id # row.id} \cup {upd},
                                !.stats.files_updated = @ + 1]
               ELSE st1

\* The inner loop's body with the modification-time test dropped: every
\* known file is rewritten.
ScanFileAlwaysUpdates(st, it, vanish) ==
    LET c == it[1]
        p == it[2]
        fp == Resolve(p)
        st1 == [st EXCEPT !.found = @ \cup {fp},
                          !.stats.files_scanned = @ + 1]
        hit == {r \in st.ex : r.file_path = fp}
    IN IF p \in vanish THEN [st1 EXCEPT !.stats.errors = @ + 1]
       ELSE IF hit = {}
       THEN [st1 EXCEPT !.se.new = Append(@, PhotoRow(0, fp, Name(p), DirName(c),
                                                     StatMtime(p))),
                        !.stats.files_added = @ + 1]
       ELSE LET row == CHOOSE r \in hit : TRUE
                upd == RegenerateTitle([row EXCEPT !.filename = Name(p),
                                                   !.category = DirName(c),
                                                   !.mtime = StatMtime(p)], Name(p))
            IN [st1 EXCEPT !.ex = (@ \ {row}) \cup {upd},
                           !.se.dirty = {d \in @ : d.id # row.id} \cup {upd},
                           !.stats.files_updated = @ + 1]

\* The body of the inner loop for one file (lines 153-208).  st: ex (the
\* loaded rows, as changed so far), se (the session), found, stats.
ScanFile(st, it, vanish) ==
    LET c == it[1]
        p == it[2]
        fp == Resolve(p)
        st1 == [st EXCEPT !.found = @ \cup {fp},
                          !.stats.files_scanned = @ + 1]
        hit == {r \in st.ex : r.file_path = fp}
    IN IF p \in vanish THEN [st1 EXCEPT !.stats.errors = @ + 1]
       ELSE IF hit = {}
       THEN [st1 EXCEPT !.se.new = Append(@, PhotoRow(0, fp, Name(p), DirName(c),
                                                     StatMtime(p))),
                        !.stats.files_added = @ + 1]
       ELSE LET row == CHOOSE r \in hit : TRUE
                upd == RegenerateTitle([row EXCEPT !.filename = Name(p),
                                                   !.category = DirName(c),
                                                   !.mtime = StatMtime(p)], Name(p))
            IN IF row.mtime # StatMtime(p)
               THEN [st1 EXCEPT !.ex = (@ \ {row}) \cup {upd},
                                !.se.dirty = {d \in @ : d.id # row.id} \cup {upd},
                                !.stats.files_updated = @ + 1]
               ELSE st1

RECURSIVE ScanAll(_, _, _)
ScanAll(st, order, vanish) ==
    IF order = <<>> THEN st
    ELSE ScanAll(ScanFile(st, Head(order), vanish), Tail(order), vanish)

\* orphaned_photos (lines 211-213)
Orphans(ex, fnd) == {r \in ex : r.file_path \notin fnd}

\* The exception leaves _perform_full_sync (lines 232-235).
SyncRaise ==
    /\ sres' = [sres EXCEPT !.out = "raised"]
    /\ spc' = "done"
    /\ sess' = [sess EXCEPT !["sync"] = ClosedSession]
    /\ existing' = {}
    /\ found' = {}
    /\ stats' = SyncStats(0, 0, 0, 0, 0)

\* Lines 122-137: the root is checked, a session opened, the rows loaded.
SyncBegin(fault) ==
    /\ spc = "idle"
    /\ fault \in {"none", "db"}
    /\ fault = "db" => RootOk
    /\ alone' = (bpc # "run" /\ fault = "none")
    /\ IF ~RootOk \/ fault = "db"
       THEN /\ sres' = [out |-> "raised", twice |-> alone]
            /\ spc' = "done"
            /\ UNCHANGED <<sess, existing>>
       ELSE /\ sres' = [out |-> "running", twice |-> alone]
            /\ spc' = "loaded"
            /\ sess' = [sess EXCEPT !["sync"] = OpenSession]
            /\ existing' = catalog
    /\ UNCHANGED <<rootKind, disk, catalog, channel, arrived, bpc, batch, idx,
                   calls, fails, opened, commitCalls, rollbacks, applied, bres,
                   found, stats, raced>>

\* Lines 141-208: the walk.  The files of vanish are deleted between
\* is_file() and stat().
SyncScan(order, vanish) ==
    /\ spc = "loaded"
    /\ order \in Orders(ScanSet)
    /\ vanish \subseteq {it[2] : it \in ScanSet}
    /\ LET st == ScanAll([ex |-> existing, se |-> sess["sync"], found |-> {},
                          stats |-> stats], order, vanish)
       IN /\ sess' = [sess EXCEPT !["sync"] = st.se]
          /\ found' = st.found
          /\ stats' = st.stats
    /\ disk' = [p \in Locs |-> IF p \in vanish THEN NoFile ELSE disk[p]]
    /\ alone' = (alone /\ vanish = {})
    /\ spc' = "scanned"
    /\ raced' = (raced \/ Racing)
    /\ UNCHANGED <<rootKind, catalog, channel, arrived, bpc, batch, idx, calls,
                   fails, opened, commitCalls, rollbacks, applied, bres, existing,
                   sres>>
    /\ UNCHANGED wvars

\* Lines 215-219: the bulk DELETE of the orphans, after autoflush.
SyncDelete(fault) ==
    /\ spc = "scanned"
    /\ Orphans(existing, found) # {}
    /\ fault \in {"none", "db"}
    /\ LET se == sess["sync"]
           f == FlushOf(se, catalog, UsedIds)
           ids == Ids(Orphans(existing, found))
       IN IF fault = "db" \/ ~f.ok
          THEN /\ fault = "none" => ~Blocked(se, catalog, sess["batch"])
               /\ SyncRaise
               /\ alone' = (alone /\ fault = "none")
          ELSE /\ ~Blocked(se, catalog, sess["batch"])
               /\ ids \cap (sess["batch"].del \cup Ids(sess["batch"].upd)) = {}
               /\ sess' = [sess EXCEPT !["sync"] =
                              [f.se EXCEPT !.del = @ \cup (ids \cap Ids(catalog)),
                                           !.upd = {u \in @ : u.id \notin ids}]]
               /\ stats' = [stats EXCEPT !.files_removed = @ + Cardinality(ids)]
               /\ spc' = "commit"
               /\ UNCHANGED <<sres, alone, existing, found>>
    /\ raced' = (raced \/ Racing)
    /\ UNCHANGED <<rootKind, disk, catalog, channel, arrived, bpc, batch, idx,
                   calls, fails, opened, commitCalls, rollbacks, applied, bres>>
    /\ UNCHANGED wvars

\* Line 222: session.commit(), and the statistics are returned.
SyncCommit(fault) ==
    /\ \/ spc = "commit"
       \/ spc = "scanned" /\ Orphans(existing, found) = {}
    /\ fault \in {"none", "db"}
    /\ LET se == sess["sync"]
           f == FlushOf(se, catalog, UsedIds)
       IN IF fault = "db" \/ ~f.ok
          THEN /\ fault = "none" => ~Blocked(se, catalog, sess["batch"])
               /\ SyncRaise
               /\ alone' = (alone /\ fault = "none")
               /\ UNCHANGED catalog
          ELSE /\ ~Blocked(se, catalog, sess["batch"])
               /\ catalog' = CommitOf(f.se, catalog)
               /\ sres' = [sres EXCEPT !.out = "ok"]
               /\ spc' = "done"
               /\ sess' = [sess EXCEPT !["sync"] = ClosedSession]
               /\ UNCHANGED <<alone, stats, existing, found>>
    /\ raced' = (raced \/ Racing)
    /\ UNCHANGED <<rootKind, disk, channel, arrived, bpc, batch, idx, calls,
                   fails, opened, commitCalls, rollbacks, applied, bres>>
    /\ UNCHANGED wvars

\* The statistics, or the exception, reach the caller (worker.py:60, 199).
SyncReturn ==
    /\ spc = "done"
    /\ spc' = "idle"
    /\ alone' = (alone /\ sres.out = "ok")
    /\ sres' = [out |-> "none", twice |-> FALSE]
    /\ stats' = SyncStats(0, 0, 0, 0, 0)
    /\ existing' = {}
    /\ found' = {}
    /\ raced' = (raced /\ ~alone)
    /\ UNCHANGED <<rootKind, disk, catalog, sess, channel, arrived, bpc, batch,
                   idx, calls, fails, opened, commitCalls, rollbacks, applied,
                   bres>>

\* ------------------------------------------------------------ environment
\* Somebody writes, touches, links or removes an entry below the root.
FsChange(p, v) ==
    /\ v \in Allowed(p)
    /\ v # disk[p]
    /\ disk' = [disk EXCEPT ![p] = v]
    /\ alone' = FALSE
    /\ raced' = FALSE
    /\ UNCHANGED <<rootKind, catalog, sess, channel, arrived, bpc, batch, idx,
                   calls, fails, opened, commitCalls, rollbacks, applied, bres,
                   spc, existing, found, stats, sres>>
    /\ UNCHANGED wvars

\* The storage root is unmounted, replaced by a file, or mounted again.
RootChange(k) ==
    /\ k \in RootKinds
    /\ k # rootKind
    /\ rootKind' = k
    /\ alone' = FALSE
    /\ raced' = FALSE
    /\ UNCHANGED <<disk, catalog, sess, channel, arrived, bpc, batch, idx,
                   calls, fails, opened, commitCalls, rollbacks, applied, bres,
                   spc, existing, found, stats, sres>>
    /\ UNCHANGED wvars

\* ------------------------------------------------------ the health monitor
\* No timestamp: None.
None == 0 - 1

\* HealthMonitor.__init__: the monitor with what it was given to look at, on
\* the day of its construction.  db: a database manager was given; obs: what
\* was given as watcher_observer ("none", "observer", or "other": an object
\* without is_alive).
HealthMonitor(db, obs, date) ==
    [db_manager |-> db, watcher_observer |-> obs, current_date |-> date,
     files_processed_today |-> 0, files_added_today |-> 0,
     files_updated_today |-> 0, files_removed_today |-> 0,
     total_processed_events |-> 0, total_failed_events |-> 0,
     last_sync |-> None, last_full_sync |-> None, processing_times |-> <<>>]

\* No request has been answered yet.
NoResponse == [op |-> "none", status |-> "none"]

\* SyncWorker.__init__ (worker.py:33): self.health_monitor = HealthMonitor(),
\* with a database that answers and a day that has just begun.
MonitorInit ==
    /\ monitor = HealthMonitor(FALSE, "none", 0)
    /\ world = [date |-> 0, db |-> "up", alive |-> "yes"]
    /\ resp = NoResponse

\* The observer has delivered nothing yet.
NoNotification ==
    [event_type |-> "none", src_path |-> "none", is_directory |-> FALSE, out |-> "none"]

\* ---------------------------------------------------------- specification
\* SyncEngine, the catalog and the dispatcher after construction, over an
\* empty storage root.
InitEngine ==
    /\ rootKind = "dir"
    /\ disk = [p \in Locs |-> NoFile]
    /\ catalog = {}
    /\ sess = [s \in Sessions |-> ClosedSession]
    /\ channel = <<>>
    /\ arrived = <<>>
    /\ bpc = "idle"
    /\ batch = <<>>
    /\ idx = 0
    /\ calls = 0
    /\ fails = 0
    /\ opened = 0
    /\ commitCalls = 0
    /\ rollbacks = 0
    /\ applied = <<>>
    /\ bres = "none"
    /\ spc = "idle"
    /\ existing = {}
    /\ found = {}
    /\ stats = SyncStats(0, 0, 0, 0, 0)
    /\ sres = [out |-> "none", twice |-> FALSE]
    /\ alone = FALSE
    /\ raced = FALSE

\* SyncConfig() with no SYNC_* setting in the environment.
DefaultConfig ==
    [initial_sync_on_startup |-> initial_sync_on_startup,
     event_debounce_delay |-> event_debounce_delay,
     max_batch_size |-> max_batch_size]

\* The worker up and serving with the default settings: start() is in its
\* gather, the watcher is started and both loops run.  Here the clock does not
\* move: what happens is looked at in any order, whatever the delays are.
Init ==
    /\ InitEngine
    /\ cfg = DefaultConfig
    /\ running = TRUE
    /\ wpc = "gather"
    /\ observer = "started"
    /\ stops = 0
    /\ health = "serving"
    /\ ctask = "loop"
    /\ ptask = "sleep"
    /\ elapsed = 0
    /\ held = 0
    /\ slept = 0
    /\ ages = <<>>
    /\ caught = {}
    /\ pending = 0
    /\ isync = "none"
    /\ mark = 0
    /\ seen = NoNotification
    /\ MonitorInit

\* The full sync with the event pipeline quiet: the engine's full-sync mode
\* over a changing filesystem.
NextSync ==
    \/ \E p \in Locs, v \in UNION {Allowed(q) : q \in Locs} : spc = "idle" /\ FsChange(p, v)
    \/ \E k \in RootKinds : spc = "idle" /\ RootChange(k)
    \/ \E f \in {"none", "db"} : SyncBegin(f) /\ UNCHANGED wvars
    \/ \E o \in Orders(ScanSet), v \in SUBSET {PX, PS} : SyncScan(o, v)
    \/ \E f \in {"none", "db"} : SyncDelete(f)
    \/ \E f \in {"none", "db"} : SyncCommit(f)
    \/ SyncReturn /\ UNCHANGED wvars

SpecSync == Init /\ [][NextSync]_vars

\* Event mode, with files that vanish under a handler: the watcher queues
\* events, the consumer collects and dispatches them, batches are retried.
\* The disk changes and events arrive while no batch is being processed
\* (a handler reads neither the queue nor, but for the file it handles, the
\* disk as others change it).
Next ==
    \/ \E p \in {PX, PS}, v \in UNION {Allowed(q) : q \in Locs} : bpc = "idle" /\ FsChange(p, v)
    \/ \E t \in WatcherEventTypes, p \in EventPaths : QueueEvent(t, p) /\ UNCHANGED wvars
    \/ CollectEvent /\ UNCHANGED wvars
    \/ DispatchCollected /\ UNCHANGED wvars
    \/ Retry /\ UNCHANGED wvars
    \/ \E f \in {"none", "stat"} : HandleEvent(f)
    \/ CommitBatch("none")
    \/ DispatchReturn /\ UNCHANGED wvars

Spec == Init /\ [][Next]_vars

\* Event mode over a database that fails: any statement of a handler and the
\* commit may fail.  One file, PX, comes and goes.
NextFault ==
    \/ \E v \in Allowed(PX) : bpc = "idle" /\ FsChange(PX, v)
    \/ \E b \in Batches : Dispatch(b) /\ UNCHANGED wvars
    \/ Retry /\ UNCHANGED wvars
    \/ \E f \in HandlerFaults : HandleEvent(f)
    \/ \E f \in {"none", "db"} : CommitBatch(f)
    \/ DispatchReturn /\ UNCHANGED wvars

SpecFault == Init /\ [][NextFault]_vars

\* The batches about one path.
RaceBatches ==
    {b \in Batches : \A i, j \in 1..Len(b) : b[i].file_path = b[j].file_path}

\* Event mode and full syncs side by side, each with its own session: the
\* steps of a batch and of a full sync interleave freely.  One file, PX, is
\* contended, under its own name and through the link PS; the disk changes
\* while neither is running.
NextRace ==
    \/ \E v \in Allowed(PX) : spc = "idle" /\ bpc = "idle" /\ FsChange(PX, v)
    \/ \E v \in {NoFile, SymLink} : spc = "idle" /\ bpc = "idle" /\ FsChange(PS, v)
    \/ \E b \in RaceBatches : Dispatch(b) /\ UNCHANGED wvars
    \/ Retry /\ UNCHANGED wvars
    \/ HandleEvent("none")
    \/ CommitBatch("none")
    \/ DispatchReturn /\ UNCHANGED wvars
    \/ SyncBegin("none") /\ UNCHANGED wvars
    \/ \E o \in Orders(ScanSet) : SyncScan(o, {})
    \/ SyncDelete("none")
    \/ SyncCommit("none")
    \/ SyncReturn /\ UNCHANGED wvars

SpecRace == Init /\ [][NextRace]_vars

\* ------------------------------------------------------------- the worker
\* What the engine, the dispatcher and the filesystem consist of: a step of
\* start(), of a loop's own bookkeeping or of the clock leaves it alone.
evars == <<rootKind, disk, catalog, sess, channel, arrived, bpc, batch, idx,
           calls, fails, opened, commitCalls, rollbacks, applied, bres, spc,
           existing, found, stats, sres, alone, raced>>

Min(a, b) == IF a < b THEN a ELSE b

\* signal_handler (worker.py:45-47), on SIGINT or SIGTERM while start() is
\* under way.  While the health server serves, the signal is the server's to
\* take: it begins to stop, and whether the worker's handler is still called
\* (heard) is the server library's business.
Signal(heard) ==
    /\ wpc \in {"initsync", "watch", "gather"}
    /\ health # "serving" => heard
    /\ running' = (running /\ ~heard)
    /\ health' = IF health = "serving" THEN "stopping" ELSE health
    /\ UNCHANGED evars
    /\ UNCHANGED <<cfg, monitor, world, resp, seen, wpc, observer, stops, ctask, ptask, elapsed, held, slept, ages, caught, isync, mark>>
    /\ pending' = IF running /\ heard THEN Len(channel) ELSE pending

\* start(), lines 55-60 with initial_sync_on_startup: running is set and
\* perform_initial_sync() is called.
StartWithSync(fault) ==
    /\ wpc = "new"
    /\ cfg.initial_sync_on_startup
    /\ SyncBegin(fault)
    /\ running' = TRUE
    /\ wpc' = "initsync"
    /\ UNCHANGED <<cfg, monitor, world, resp, seen, observer, stops, health, ctask, ptask, elapsed, held, slept, ages, caught, pending, isync, mark>>

\* start(), lines 55-58 without it: running is set, and on to the watcher.
StartNoSync ==
    /\ wpc = "new"
    /\ ~cfg.initial_sync_on_startup
    /\ running' = TRUE
    /\ wpc' = "watch"
    /\ UNCHANGED evars
    /\ UNCHANGED <<cfg, monitor, world, resp, seen, observer, stops, health, ctask, ptask, elapsed, held, slept, ages, caught, pending, isync, mark>>

\* ... where start() goes on to the watcher after an initial sync that raised.
InitialSyncReturnGoesOn ==
    /\ wpc = "initsync"
    /\ SyncReturn
    /\ wpc' = "watch"
    /\ UNCHANGED <<cfg, monitor, world, resp, seen, running, observer, stops, health, ctask, ptask, elapsed, held, slept, ages, caught, pending, mark>>
    /\ isync' = IF sres.out = "ok" THEN "ok" ELSE "failed"

\* perform_initial_sync() returns its statistics to line 60, or raises into
\* the except clause of line 70, from where the finally clause follows.
InitialSyncReturn ==
    /\ wpc = "initsync"
    /\ SyncReturn
    /\ wpc' = IF sres.out = "ok" THEN "watch" ELSE "shutdown"
    /\ UNCHANGED <<cfg, monitor, world, resp, seen, running, observer, stops, health, ctask, ptask, elapsed, held, slept, ages, caught, pending, mark>>
    /\ isync' = IF sres.out = "ok" THEN "ok" ELSE "failed"

\* Lines 62-68: start_watching() (watcher.py:94-99) schedules the root and
\* starts the observer thread, which fails on a root that cannot be watched;
\* then the three tasks are created and start() waits in gather.
StartWatching ==
    /\ wpc = "watch"
    /\ IF RootOk
       THEN /\ observer' = "started"
            /\ wpc' = "gather"
            /\ health' = "serving"
            /\ ctask' = "loop"
            /\ ptask' = "loop"
       ELSE /\ wpc' = "shutdown"
            /\ UNCHANGED <<observer, health, ctask, ptask>>
    /\ UNCHANGED evars
    /\ UNCHANGED <<cfg, monitor, world, resp, seen, running, stops, elapsed, held, slept, ages, caught, pending, isync, mark>>

\* server.serve() (line 96) returns once the server has been told to stop.
HealthEnd ==
    /\ health = "stopping"
    /\ health' = "ended"
    /\ UNCHANGED evars
    /\ UNCHANGED <<cfg, monitor, world, resp, seen, running, wpc, observer, stops, ctask, ptask, elapsed, held, slept, ages, caught, pending, isync, mark>>

\* asyncio.gather (line 68) returns when all three tasks are done, and the
\* finally clause is entered.
Gathered ==
    /\ wpc = "gather"
    /\ health = "ended"
    /\ ctask = "exited"
    /\ ptask = "exited"
    /\ wpc' = "shutdown"
    /\ UNCHANGED evars
    /\ UNCHANGED <<cfg, monitor, world, resp, seen, running, observer, stops, health, ctask, ptask, elapsed, held, slept, ages, caught, pending, isync, mark>>

\* observer.join() (watcher.py:105) is threading.Thread.join: RuntimeError on
\* a thread that was never started.
JoinRaises(o) == o = "new"

\* shutdown() (lines 75-82) from the finally clause of start(): running is
\* cleared, the observer stopped and joined; then start() returns to main(),
\* or the exception of the join leaves it.
Shutdown ==
    /\ wpc = "shutdown"
    /\ running' = FALSE
    /\ IF JoinRaises(observer)
       THEN /\ wpc' = "raised"
            /\ UNCHANGED <<observer, stops>>
       ELSE /\ wpc' = "returned"
            /\ observer' = "stopped"
            /\ stops' = stops + 1
    /\ UNCHANGED evars
    /\ UNCHANGED <<cfg, monitor, world, resp, seen, health, ctask, ptask, elapsed, held, slept, ages, caught, pending, isync, mark>>

\* main() (main.py:33-40): what asyncio.run(main()) ends with is the
\* process's exit status, 1 for an exception that left start().
ExitCode == IF wpc = "raised" THEN 1 ELSE 0

\* PhotoDirectoryEventHandler._queue_event on the observer thread, which
\* runs from observer.start() to observer.stop().  The event may be the one
\* that is followed on its way.
Emit(t, p, follow) ==
    /\ observer = "started"
    /\ QueueEvent(t, p)
    /\ ages' = Append(ages, 0)
    /\ UNCHANGED <<cfg, monitor, world, resp, seen, running, wpc, observer, stops, health, ctask, ptask, elapsed, held, slept, caught, pending, isync>>
    /\ follow => mark = 0
    /\ mark' = IF follow THEN Len(arrived) + 1 ELSE mark

\* What the observer reports: watchdog's event types, of which the handler
\* overrides on_created, on_modified and on_deleted (the others fall to the
\* no-ops of FileSystemEventHandler).
NotificationTypes == {"created", "modified", "deleted", "moved", "closed"}

\* The paths notifications are about: supported files, an unsupported one,
\* and a directory whose name ends like a picture's.
NotificationPaths == {PX, PS, PN, PDdir}

\* FileSystemEvent: event_type, src_path, is_directory.
Notifications ==
    {[event_type |-> k, src_path |-> p, is_directory |-> (p = PDdir)] :
        k \in NotificationTypes, p \in NotificationPaths}

\* The test without its first half: directories pass.
AcceptedWithDirectories(n) == is_supported_image_file(n.src_path)

\* "not event.is_directory and self._is_supported_file(str(event.src_path))"
\* (watcher.py:26, 31, 36)
Accepted(n) == ~n.is_directory /\ is_supported_image_file(n.src_path)

\* How _queue_event ends: by its put (line 58), or, when something in its try
\* block raised, in the except clause of line 61, which logs and returns.
QueueEventOutcome(raises) == IF raises THEN "caught" ELSE "queued"

\* The observer thread delivers notification n to the handler, and the
\* callback for its type runs to its end; raises: building the FileEvent
\* raises before the put.
OnNotification(n, raises) ==
    /\ observer = "started"
    /\ IF n.event_type \in WatcherEventTypes /\ Accepted(n)
       THEN /\ seen' = [event_type |-> n.event_type, src_path |-> n.src_path,
                        is_directory |-> n.is_directory,
                        out |-> QueueEventOutcome(raises)]
            /\ IF QueueEventOutcome(raises) = "queued"
               THEN /\ QueueEvent(n.event_type, n.src_path)
                    /\ ages' = Append(ages, 0)
               ELSE /\ Len(arrived) < MaxBatchLen
                    /\ UNCHANGED evars
                    /\ UNCHANGED ages
       ELSE /\ ~raises
            /\ seen' = [event_type |-> n.event_type, src_path |-> n.src_path,
                        is_directory |-> n.is_directory, out |-> "ignored"]
            /\ UNCHANGED evars
            /\ UNCHANGED ages
    /\ UNCHANGED <<cfg, monitor, world, resp, running, wpc, observer, stops, health, ctask, ptask, elapsed, held, slept, caught, pending, isync, mark>>

\* Half a second passes.
Tick ==
    /\ wpc = "gather"
    /\ elapsed' = Min(elapsed + 1, batch_timeout)
    /\ held' = IF ctask \in {"debounce", "collect"} /\ batch # <<>>
               THEN Min(held + 1, cfg.event_debounce_delay) ELSE held
    /\ ages' = [i \in 1..Len(ages) |-> Min(ages[i] + 1, cfg.event_debounce_delay)]
    /\ <<elapsed', held', ages'>> # <<elapsed, held, ages>>
    /\ UNCHANGED evars
    /\ UNCHANGED <<cfg, monitor, world, resp, seen, running, wpc, observer, stops, health, ctask, ptask, slept, caught, pending, isync, mark>>

\* _process_events, line 102: while self.running; then _collect_event_batch
\* begins (lines 122-124).
LoopTest ==
    /\ ctask = "loop"
    /\ IF running
       THEN /\ ctask' = "collect"
            /\ elapsed' = 0
            /\ held' = 0
            /\ slept' = 0
       ELSE /\ ctask' = "exited"
            /\ UNCHANGED <<elapsed, held, slept>>
    /\ UNCHANGED evars
    /\ UNCHANGED <<cfg, monitor, world, resp, seen, running, wpc, observer, stops, health, ptask, ages, caught, pending, isync, mark>>

\* The condition of the while of _collect_event_batch (lines 126-130): its
\* second and third conjunct, and the whole.
InTime == elapsed < batch_timeout /\ running

CollectMore == Len(batch) < cfg.max_batch_size /\ InTime

\* ... with the debounce sleep after every event of the batch.
GetEventSleepsEachTime ==
    /\ ctask = "collect"
    /\ InTime
    /\ CollectEvent
    /\ ctask' = "debounce"
    /\ slept' = slept + 1
    /\ held' = IF batch = <<>> THEN 0 ELSE held
    /\ UNCHANGED <<cfg, monitor, world, resp, seen, running, wpc, observer, stops, health, ptask, elapsed, ages, caught, isync, mark>>
    /\ pending' = IF pending > 0 THEN pending - 1 ELSE 0

\* Lines 134-140: get() hands over an event; after the first one of the batch
\* the debounce sleep begins.
GetEvent ==
    /\ ctask = "collect"
    /\ InTime
    /\ CollectEvent
    /\ IF batch = <<>>
       THEN /\ ctask' = "debounce"
            /\ slept' = slept + 1
            /\ held' = 0
       ELSE UNCHANGED <<ctask, slept, held>>
    /\ UNCHANGED <<cfg, monitor, world, resp, seen, running, wpc, observer, stops, health, ptask, elapsed, ages, caught, isync, mark>>
    /\ pending' = IF pending > 0 THEN pending - 1 ELSE 0

\* asyncio.sleep(event_debounce_delay) (line 140) is over.
DebounceEnd ==
    /\ ctask = "debounce"
    /\ held >= cfg.event_debounce_delay
    /\ ctask' = "collect"
    /\ UNCHANGED evars
    /\ UNCHANGED <<cfg, monitor, world, resp, seen, running, wpc, observer, stops, health, ptask, elapsed, held, slept, ages, caught, pending, isync, mark>>

\* The collection ends with events in hand: the while condition fails, or
\* get() times out on an empty queue (lines 142-145); _process_events passes
\* the batch to _process_event_batch_with_retry (line 110).
DispatchBatch ==
    /\ ctask = "collect"
    /\ ~CollectMore \/ channel = <<>>
    /\ DispatchCollected
    /\ ctask' = "call"
    /\ UNCHANGED <<cfg, monitor, world, resp, seen, running, wpc, observer, stops, health, ptask, elapsed, held, slept, ages, caught, pending, isync>>
    /\ mark' = IF mark <= Len(batch) THEN 0 ELSE mark

\* The collection ends with nothing in hand (the queue stayed empty for
\* batch_timeout, or running was cleared): lines 106-108, sleep(0.1).
ReturnEmpty ==
    /\ ctask = "collect"
    /\ batch = <<>>
    /\ ~CollectMore
    /\ ctask' = "nap"
    /\ UNCHANGED evars
    /\ UNCHANGED <<cfg, monitor, world, resp, seen, running, wpc, observer, stops, health, ptask, elapsed, held, slept, ages, caught, pending, isync, mark>>

\* ... and the next attempt of the batch, after the retry_delay sleep.
RetryBatch ==
    /\ ctask = "call"
    /\ Retry
    /\ UNCHANGED wvars

\* ... where the error of a batch that was given up ends the loop.
BatchDoneEndsLoopOnError ==
    /\ ctask = "call"
    /\ DispatchReturn
    /\ ctask' = IF bres = "ok" THEN "loop" ELSE "exited"
    /\ ages' = SubSeq(ages, Len(ages) - Len(channel) + 1, Len(ages))
    /\ UNCHANGED <<cfg, monitor, world, resp, seen, running, wpc, observer, stops, health, ptask, elapsed, held, slept, pending, isync>>
    /\ mark' = IF mark > Len(batch) THEN mark - Len(batch) ELSE 0
    /\ caught' = IF bres = "ok" THEN caught ELSE caught \cup {"events"}

\* _process_event_batch_with_retry returns to line 110, or raises into the
\* except clause of line 112, where the loop sleeps a second.
BatchDone ==
    /\ ctask = "call"
    /\ DispatchReturn
    /\ ctask' = IF bres = "ok" THEN "loop" ELSE "backoff"
    /\ ages' = SubSeq(ages, Len(ages) - Len(channel) + 1, Len(ages))
    /\ UNCHANGED <<cfg, monitor, world, resp, seen, running, wpc, observer, stops, health, ptask, elapsed, held, slept, pending, isync>>
    /\ mark' = IF mark > Len(batch) THEN mark - Len(batch) ELSE 0
    /\ caught' = IF bres = "ok" THEN caught ELSE caught \cup {"events"}

\* The sleep of line 107 or of line 114 is over: back to the while.
SleepEnd ==
    /\ ctask \in {"nap", "backoff"}
    /\ ctask' = "loop"
    /\ UNCHANGED evars
    /\ UNCHANGED <<cfg, monitor, world, resp, seen, running, wpc, observer, stops, health, ptask, elapsed, held, slept, ages, caught, pending, isync, mark>>

\* _periodic_sync, line 195: while self.running, then the sleep of line 197.
PeriodicTest ==
    /\ ptask = "loop"
    /\ ptask' = IF running THEN "sleep" ELSE "exited"
    /\ UNCHANGED evars
    /\ UNCHANGED <<cfg, monitor, world, resp, seen, running, wpc, observer, stops, health, ctask, elapsed, held, slept, ages, caught, pending, isync, mark>>

\* ... without the test of line 198: the sync is called whatever running is.
PeriodicSyncUnchecked(fault) ==
    /\ ptask = "sleep"
    /\ SyncBegin(fault)
    /\ ptask' = "sync"
    /\ UNCHANGED <<cfg, monitor, world, resp, seen, running, wpc, observer, stops, health, ctask, elapsed, held, slept, ages, caught, pending, isync, mark>>

\* Lines 198-199: periodic_sync_interval has passed and running still holds:
\* perform_periodic_sync() is called.
PeriodicSync(fault) ==
    /\ ptask = "sleep"
    /\ running
    /\ SyncBegin(fault)
    /\ ptask' = "sync"
    /\ UNCHANGED <<cfg, monitor, world, resp, seen, running, wpc, observer, stops, health, ctask, elapsed, held, slept, ages, caught, pending, isync, mark>>

\* Line 198 with running cleared during the sleep: no sync.
PeriodicSkip ==
    /\ ptask = "sleep"
    /\ ~running
    /\ ptask' = "loop"
    /\ UNCHANGED evars
    /\ UNCHANGED <<cfg, monitor, world, resp, seen, running, wpc, observer, stops, health, ctask, elapsed, held, slept, ages, caught, pending, isync, mark>>

\* ... where the exception of a periodic sync ends the loop.
PeriodicReturnEndsLoopOnError ==
    /\ ptask = "sync"
    /\ SyncReturn
    /\ ptask' = IF sres.out = "ok" THEN "loop" ELSE "exited"
    /\ UNCHANGED <<cfg, monitor, world, resp, seen, running, wpc, observer, stops, health, ctask, elapsed, held, slept, ages, pending, isync, mark>>
    /\ caught' = IF sres.out = "ok" THEN caught ELSE caught \cup {"periodic"}

\* perform_periodic_sync() returns, or raises into the except clause of line
\* 201: either way the loop goes back to its while.
PeriodicReturn ==
    /\ ptask = "sync"
    /\ SyncReturn
    /\ ptask' = "loop"
    /\ UNCHANGED <<cfg, monitor, world, resp, seen, running, wpc, observer, stops, health, ctask, elapsed, held, slept, ages, pending, isync, mark>>
    /\ caught' = IF sres.out = "ok" THEN caught ELSE caught \cup {"periodic"}

\* The settings the worker is started with: a debounce delay below and above
\* batch_timeout, a batch size that the queue can exceed and one it cannot.
DebounceDelays == {1, event_debounce_delay}
BatchSizes == {1, max_batch_size}

\* The worker up and serving, as in Init, with the settings chosen.
InitPipeline ==
    /\ InitEngine
    /\ cfg \in [initial_sync_on_startup : {initial_sync_on_startup},
                event_debounce_delay : DebounceDelays,
                max_batch_size : BatchSizes]
    /\ running = TRUE
    /\ wpc = "gather"
    /\ observer = "started"
    /\ stops = 0
    /\ health = "serving"
    /\ ctask = "loop"
    /\ ptask = "sleep"
    /\ elapsed = 0
    /\ held = 0
    /\ slept = 0
    /\ ages = <<>>
    /\ caught = {}
    /\ pending = 0
    /\ isync = "none"
    /\ mark = 0
    /\ seen = NoNotification
    /\ MonitorInit

\* The event pipeline with its clock, from the watcher's callback to the
\* commit of the batch, until a signal stops it: events about one file
\* arrive at any time, batches are collected, debounced, dispatched and
\* retried over a database that may fail.
NextPipeline ==
    \/ \E h \in BOOLEAN : Signal(h)
    \/ \E t \in WatcherEventTypes : Emit(t, PX, FALSE)
    \/ Tick
    \/ LoopTest
    \/ GetEvent
    \/ DebounceEnd
    \/ DispatchBatch
    \/ ReturnEmpty
    \/ RetryBatch
    \/ \E f \in {"none", "dbkill"} : HandleEvent(f)
    \/ CommitBatch("none")
    \/ BatchDone
    \/ SleepEnd

SpecPipeline == InitPipeline /\ [][NextPipeline]_vars

\* The steps of the _process_events task.
Consumer ==
    \/ LoopTest
    \/ GetEvent
    \/ DebounceEnd
    \/ DispatchBatch
    \/ ReturnEmpty
    \/ RetryBatch
    \/ \E f \in {"none", "dbkill"} : HandleEvent(f)
    \/ CommitBatch("none")
    \/ BatchDone
    \/ SleepEnd

\* The event pipeline with one of the events followed.
NextLive ==
    \/ NextPipeline
    \/ \E t \in WatcherEventTypes : Emit(t, PX, TRUE)

\* ... where time goes on, and the event loop keeps running the task of
\* _process_events whenever it can take a step: its awaits end (the sleeps
\* with time, the calls of the engine by returning or raising).  A
\* collection that begins or goes on with an event queued takes it: get()
\* returns at once on a queue that is not empty, with no await between the
\* while condition and the get() for the time to run out in.
SpecLive ==
    /\ InitPipeline
    /\ [][NextLive]_vars
    /\ WF_vars(Tick)
    /\ WF_vars(Consumer)
    /\ SF_vars(GetEvent)

\* SyncWorker() (worker.py:25-36): constructed, not started.
InitWorker ==
    /\ InitEngine
    /\ cfg \in [initial_sync_on_startup : BOOLEAN,
                event_debounce_delay : {1},
                max_batch_size : {max_batch_size}]
    /\ running = FALSE
    /\ wpc = "new"
    /\ observer = "new"
    /\ stops = 0
    /\ health = "off"
    /\ ctask = "off"
    /\ ptask = "off"
    /\ elapsed = 0
    /\ held = 0
    /\ slept = 0
    /\ ages = <<>>
    /\ caught = {}
    /\ pending = 0
    /\ isync = "none"
    /\ mark = 0
    /\ seen = NoNotification
    /\ MonitorInit

\* The worker from main() to its exit, over a storage root that may be
\* missing: start(), the watcher, the two loops and the health server, the
\* clock, and the signals.  The root holds no file, so that a full sync has
\* nothing to add or delete.
NextWorker ==
    \/ \E k \in RootKinds : wpc = "new" /\ RootChange(k)
    \/ \E h \in BOOLEAN : Signal(h)
    \/ \E f \in {"none", "db"} : StartWithSync(f)
    \/ StartNoSync
    \/ InitialSyncReturn
    \/ StartWatching
    \/ HealthEnd
    \/ Gathered
    \/ Shutdown
    \/ Emit("deleted", PX, FALSE)
    \/ Tick
    \/ LoopTest
    \/ GetEvent
    \/ DebounceEnd
    \/ DispatchBatch
    \/ ReturnEmpty
    \/ RetryBatch
    \/ \E f \in {"none", "dbkill"} : HandleEvent(f)
    \/ CommitBatch("none")
    \/ BatchDone
    \/ SleepEnd
    \/ PeriodicTest
    \/ \E f \in {"none", "db"} : PeriodicSync(f)
    \/ PeriodicSkip
    \/ PeriodicReturn
    \/ \E o \in Orders(ScanSet) : SyncScan(o, {})
    \/ SyncCommit("none")

SpecWorker == InitWorker /\ [][NextWorker]_vars

\* The steps of start() itself, of the _periodic_sync task, and of a full
\* sync once it has begun.
Starter ==
    \/ \E f \in {"none", "db"} : StartWithSync(f)
    \/ StartNoSync
    \/ InitialSyncReturn
    \/ StartWatching
    \/ Gathered
    \/ Shutdown

Periodic ==
    \/ PeriodicTest
    \/ \E f \in {"none", "db"} : PeriodicSync(f)
    \/ PeriodicSkip
    \/ PeriodicReturn

FullSync ==
    \/ \E o \in Orders(ScanSet) : SyncScan(o, {})
    \/ SyncCommit("none")

\* ... where time goes on and the event loop runs every task that can take a
\* step: the sleeps end, the calls of the engine return or raise, and the
\* health server ends once it was told to stop.
SpecWorkerFair ==
    /\ InitWorker
    /\ [][NextWorker]_vars
    /\ WF_vars(Tick)
    /\ WF_vars(Starter)
    /\ WF_vars(Consumer)
    /\ SF_vars(GetEvent)
    /\ WF_vars(Periodic)
    /\ WF_vars(FullSync)
    /\ WF_vars(HealthEnd)

\* ================================================================ claims
\* The supported regular files exactly two levels under the root, resolved.
TwoLevelFiles ==
    {p \in Locs : Len(Parts(p)) = 2 /\ IsFile(p) /\ is_supported_image_file(p)}

Truth == {Resolve(p) : p \in TwoLevelFiles}

\* A full sync has just committed, and nothing else (no batch step, no disk
\* change, no fault) has happened since it began.
SyncCommittedAlone == spc = "done" /\ sres.out = "ok" /\ alone

\* C1: after a full sync that commits, the file_path values of the catalog
\* are exactly the resolved paths of the supported regular files two levels
\* under the root; files in the root, nested files and unsupported files
\* have no row.
C1_MatchesTruth == SyncCommittedAlone => PathsOf(catalog) = Truth

\* C1's case: a committed full sync over a root that holds a supported file,
\* a file directly in the root, a nested file and an unsupported file.
C1_Witness ==
    /\ SyncCommittedAlone
    /\ catalog # {}
    /\ disk[PT].kind = "file" /\ disk[PD].kind = "file" /\ disk[PN].kind = "file"

\* C3: a full sync that follows a committed full sync, with nothing in
\* between (the filesystem unchanged), leaves the catalog as it found it and
\* reports added = updated = removed = 0.
C3_SecondSyncNoOp ==
    (SyncCommittedAlone /\ sres.twice) =>
        /\ catalog = existing
        /\ stats.files_added = 0
        /\ stats.files_updated = 0
        /\ stats.files_removed = 0

\* C3's case: the second of two full syncs in succession has committed, over
\* a catalog with rows and a file reached through a symbolic link.
C3_Witness ==
    /\ SyncCommittedAlone /\ sres.twice
    /\ catalog # {}
    /\ stats.files_scanned = 2

\* A process_event_batch call has returned or raised.
CallEnded == bpc \in {"wait", "done"} /\ calls > 0

\* How the handlers of the current call ended.
ResultsOf(log) == {log[i].res : i \in 1..Len(log)}

\* C2: in every reachable catalog state, after any sequence and any
\* interleaving of event batches (created, modified, deleted, moved) and full
\* syncs, no two rows share a file_path.
C2_UniquePaths == \A r1, r2 \in catalog : r1.file_path = r2.file_path => r1 = r2

\* C2's case: a batch that added a row while a full sync dealt with the same
\* file has had its commit refused, and the catalog holds a row.
C2_Witness ==
    /\ raced
    /\ bpc = "wait" /\ bres = "raised"
    /\ "added" \in ResultsOf(applied)
    /\ catalog # {}

\* C4: after a batch and a concurrent full sync have raced on a path,
\* whatever each committed or failed with, a subsequent full sync that runs
\* alone against the unchanged filesystem ends with the catalog's file_path
\* set equal to the supported files on disk.
C4_NextSyncHeals ==
    (spc = "done" /\ alone /\ raced /\ RootOk) => PathsOf(catalog) = Truth

\* The rows for the file at p: those stored under p or under its resolved
\* form.
RowsFor(p) == {r \in catalog : r.file_path \in {p, Resolve(p)}}

\* C5: the same created event applied twice in one batch, the file still
\* being on disk, yields exactly one row for that file.
C5_CreatedTwiceOneRow ==
    (/\ bpc = "done"
     /\ Len(batch) = 2
     /\ batch[1] = batch[2]
     /\ batch[1].event_type = "created"
     /\ IsFile(batch[1].file_path))
        => Cardinality(RowsFor(batch[1].file_path)) = 1

\* C6: the batch and the queue together hold the events in the order of their
\* arrival, and within one call the handlers run one at a time in the order
\* of the batch: the i-th handler to finish is that of the i-th supported
\* event, and the next one starts only then.
C6_ChannelOrder ==
    /\ arrived = batch \o channel
    /\ bpc \in {"run", "wait", "done"} =>
          /\ Len(applied) <= Len(SelectEvents(batch))
          /\ \A i \in 1..Len(applied) : applied[i].ev = SelectEvents(batch)[i]
    /\ bpc = "run" => idx = Len(applied) + 1
    /\ CallEnded => Len(applied) = Len(SelectEvents(batch))

\* C6's case: a call has handled a batch of two different events that were
\* queued one after the other.
C6_Witness ==
    /\ bpc = "done"
    /\ Len(batch) = 2 /\ batch[1] # batch[2]
    /\ Len(applied) = 2
    /\ arrived = batch

\* C7: process_event_batch uses one transaction per call: with at least one
\* supported event it opens one session and calls commit exactly once,
\* however many events there are; with none it opens no session and never
\* commits.
C7_OneTransactionPerCall ==
    /\ opened <= 1 /\ commitCalls <= 1
    /\ CallEnded =>
          IF SelectEvents(batch) = <<>>
          THEN opened = 0 /\ commitCalls = 0 /\ bres = "ok"
          ELSE opened = 1 /\ commitCalls = 1

\* C7's case: a call with two supported events whose handlers succeeded has
\* returned after its one commit.
C7_Witness ==
    /\ bpc = "done" /\ bres = "ok"
    /\ Len(SelectEvents(batch)) = 2
    /\ ResultsOf(applied) \cap {"dberror", "oserror"} = {}
    /\ "added" \in ResultsOf(applied)
    /\ commitCalls = 1

\* C8: when a database-layer fault strikes the handler of an event, the call
\* aborts: it rolls back, commits none of the batch's changes, and raises.
C8_DbFaultAborts ==
    [][(bpc = "run" /\ bpc' # "run" /\ "dberror" \in ResultsOf(applied))
          => /\ catalog' = catalog
             /\ rollbacks' = rollbacks + 1
             /\ bres' \in {"raised", "dropped"}]_vars

\* C9: when the handler of one event fails with a fault that is not the
\* database's (the file vanished before stat()), the event is skipped, the
\* handler of every other event runs, and the transaction is committed once:
\* the call returns without rollback.
C9_NonDbFaultSkipped ==
    (CallEnded /\ "oserror" \in ResultsOf(applied) /\ "dberror" \notin ResultsOf(applied))
        => /\ Len(applied) = Len(SelectEvents(batch))
           /\ commitCalls = 1
           /\ rollbacks = 0
           /\ bres = "ok"

\* C9's case: of two events one failed at stat() and the other added a row,
\* which is committed.
C9_Witness ==
    /\ bpc = "done" /\ bres = "ok"
    /\ Len(applied) = 2
    /\ ResultsOf(applied) = {"oserror", "added"}
    /\ catalog # {}

\* C10: process_event_batch is invoked at most retry_attempts times for a
\* batch: retry_attempts times when every attempt fails, and k times when
\* the k-th attempt is the first to succeed.
C10_RetryCap ==
    /\ calls <= RetryAttempts
    /\ fails <= calls
    /\ bpc = "wait" => fails = calls /\ calls < RetryAttempts
    /\ (bpc = "done" /\ bres = "dropped") => calls = RetryAttempts /\ fails = RetryAttempts
    /\ (bpc = "done" /\ bres = "ok") => calls = fails + 1

\* C10's case: the batch succeeded at its last permitted attempt, after
\* retry_attempts - 1 failures.
C10_Witness ==
    /\ bpc = "done" /\ bres = "ok"
    /\ calls = RetryAttempts
    /\ fails = RetryAttempts - 1

\* C11: when the last of the retry_attempts attempts of a batch has failed,
\* the dispatch ends by raising (the batch is given up); _process_events, on
\* getting the error, leaves the queue as it is -- the events of the batch are
\* not put back -- and stays in its loop: it sleeps, and from the sleep it goes
\* back to collecting.
C11_GivenUpNotRequeued ==
    /\ [](fails = RetryAttempts => bpc = "done" /\ bres = "dropped")
    /\ [][(bpc = "done" /\ bres = "dropped" /\ bpc' # "done")
            => /\ fails = RetryAttempts
               /\ channel' = channel
               /\ ctask' = "backoff"]_vars
    /\ [][(ctask = "backoff" /\ ctask' # "backoff") => ctask' = "loop"]_vars

\* A batch was given up, and a later batch is being handled.
C11_Witness ==
    /\ "events" \in caught
    /\ bpc = "run"
    /\ calls = 1
    /\ applied # <<>>

\* C12: a batch never holds more than max_batch_size events, however many
\* are queued; and the events queued since the last dispatch are, in their
\* order, those of the batch followed by those still on the queue: what does
\* not fit stays queued for a later batch, and none is lost.
C12_BatchCap ==
    /\ Len(batch) <= cfg.max_batch_size
    /\ arrived = batch \o channel

\* A batch of max_batch_size events was dispatched before batch_timeout, with
\* an event left on the queue.
C12_Witness ==
    /\ ctask = "call"
    /\ running
    /\ Len(batch) = cfg.max_batch_size
    /\ elapsed < batch_timeout
    /\ channel # <<>>

\* C13: a batch is dispatched no earlier than the debounce delay after its
\* first event was received from the queue, and after exactly one debounce
\* sleep, however many events it holds.
C13_AnchorDebounced ==
    ctask = "call" => (held >= cfg.event_debounce_delay /\ slept = 1)

\* A batch of two events is dispatched.
C13_Witness ==
    /\ ctask = "call"
    /\ Len(batch) = 2
    /\ calls = 1
    /\ slept = 1

\* C14: when a batch is committed, each of its events, the first or a later
\* one, was emitted by the watcher at least event_debounce_delay earlier,
\* unless the batch holds max_batch_size events.
C14_EveryEventDebounced ==
    (bpc = "done" /\ bres = "ok" /\ Len(batch) < cfg.max_batch_size)
        => \A i \in 1..Len(batch) : ages[i] >= cfg.event_debounce_delay

\* C15: an event that was put on the queue is in the end taken from it and
\* handed to the engine in a batch, unless running is cleared: whatever
\* arrives after it, and whether the batches before it succeed or are given
\* up.
C15_NoStarvation == (mark > 0) ~> (mark = 0 \/ ~running)

\* The followed event waits on the queue behind a batch that is being
\* handled and has failed before.
C15_Witness ==
    /\ mark > Len(batch)
    /\ bpc = "run"
    /\ calls > 1
    /\ running

\* C16: the events that are on the queue when running is cleared are all
\* taken from it, for a last batch, before the _process_events loop ends
\* (the events that arrive later stay behind them on the queue and are not
\* counted).
C16_DrainedBeforeExit == ctask = "exited" => pending = 0

\* C17: once running is cleared while start() waits for its tasks, start()
\* in the end returns, with both loops ended and the observer stopped and
\* joined once.
C17_StopsAfterClear ==
    (wpc = "gather" /\ ~running)
        ~> (wpc = "returned" /\ ctask = "exited" /\ ptask = "exited" /\ stops = 1)

\* C18: as long as running holds neither the _process_events loop nor the
\* _periodic_sync loop has ended; a loop ends only at its while, on finding
\* running cleared: from a dispatch that raised and from a periodic sync that
\* raised it goes on to its next iteration.
C18_LoopsOutliveErrors ==
    /\ [](running => (ctask # "exited" /\ ptask # "exited"))
    /\ [][(ctask # "exited" /\ ctask' = "exited") => (ctask = "loop" /\ ~running)]_vars
    /\ [][(ptask # "exited" /\ ptask' = "exited") => (ptask = "loop" /\ ~running)]_vars

\* Both loops have caught an exception and are in a later iteration.
C18_Witness ==
    /\ caught = {"events", "periodic"}
    /\ running
    /\ ctask = "collect"
    /\ ptask = "sleep"

\* C19: with initial_sync_on_startup the observer is started, the loops
\* exist and a batch is handled only after perform_initial_sync() has
\* returned its statistics; without it no full sync is under way or has ended
\* as long as the observer is not started.
C19_InitialSyncFirst ==
    /\ (cfg.initial_sync_on_startup
           /\ (observer # "new" \/ ctask # "off" \/ ptask # "off" \/ bpc # "idle"))
        => isync = "ok"
    /\ (~cfg.initial_sync_on_startup /\ observer = "new")
        => (spc = "idle" /\ isync = "none" /\ ctask = "off" /\ ptask = "off")

\* After an initial sync the watcher runs and a batch is being handled.
C19_Witness ==
    /\ cfg.initial_sync_on_startup
    /\ isync = "ok"
    /\ observer = "started"
    /\ bpc = "run"

\* C20: after perform_initial_sync() has raised, the observer is never
\* started and no task is created; start() goes to shutdown(), and the worker
\* ends with shutdown() completed and a non-zero exit status.
C20_InitialSyncFailureFatal ==
    isync = "failed"
        => /\ observer = "new"
           /\ health = "off" /\ ctask = "off" /\ ptask = "off"
           /\ wpc \in {"shutdown", "returned", "raised"}
           /\ wpc # "shutdown" => (wpc = "returned" /\ ExitCode # 0)

\* ------------------------------------------------------------- the titles
\* The titles somebody may give a row: none, one of their own, and one that
\* happens to be what x.jpg generates.
Titles == {"", "Mine", "X"}

\* Somebody edits the title of a row (column title, models/photos.py): an
\* UPDATE of that column from outside the worker, while neither mode has the
\* row in hand.
EditTitle(i, t) ==
    /\ bpc = "idle"
    /\ spc = "idle"
    /\ \E r \in catalog :
          /\ r.id = i
          /\ r.title # t
          /\ catalog' = (catalog \ {r}) \cup {[r EXCEPT !.title = t]}
    /\ alone' = FALSE
    /\ raced' = FALSE
    /\ UNCHANGED <<rootKind, disk, sess, channel, arrived, bpc, batch, idx,
                   calls, fails, opened, commitCalls, rollbacks, applied, bres,
                   spc, existing, found, stats, sres>>
    /\ UNCHANGED wvars

\* One CREATED or MODIFIED event about the file or about the link to it.
TitleBatches == {<<FileEvent(t, p)>> : t \in {"created", "modified"}, p \in {PX, PS}}

\* Both modes, one after the other, over rows whose titles are edited: PX is
\* written and touched, PS is a file of its own or a link to PX.
NextTitle ==
    \/ \E v \in Allowed(PX) : spc = "idle" /\ bpc = "idle" /\ FsChange(PX, v)
    \/ \E v \in Allowed(PS) : spc = "idle" /\ bpc = "idle" /\ FsChange(PS, v)
    \/ \E i \in Ids(catalog), t \in Titles : EditTitle(i, t)
    \/ \E b \in TitleBatches : spc = "idle" /\ Dispatch(b) /\ UNCHANGED wvars
    \/ Retry /\ UNCHANGED wvars
    \/ HandleEvent("none")
    \/ CommitBatch("none")
    \/ DispatchReturn /\ UNCHANGED wvars
    \/ bpc = "idle" /\ SyncBegin("none") /\ UNCHANGED wvars
    \/ \E o \in Orders(ScanSet) : SyncScan(o, {})
    \/ SyncDelete("none")
    \/ SyncCommit("none")
    \/ SyncReturn /\ UNCHANGED wvars

SpecTitle == Init /\ [][NextTitle]_vars

\* The row's title was set by somebody: it is there and is not what the
\* row's filename generates.
ManualTitle(r) == r.title # "" /\ r.title # generate_title_from_filename(r.filename)

\* C21: a commit of either mode (a batch with a MODIFIED event, a full sync
\* with its updates) leaves the title of every row unchanged whose title was
\* set to a value other than what its stored filename generates.
C21_TitlePreserved ==
    [][(bpc # "idle" \/ spc # "idle")
          => \A r \in catalog : ManualTitle(r)
                => \A q \in catalog' : q.id = r.id => q.title = r.title]_vars

\* A MODIFIED event has rewritten a row whose title somebody set, under
\* another filename, and the title is as it was.
C21_Witness ==
    \E x \in Sessions : \E u \in sess[x].dirty : \E r \in catalog :
        /\ u.id = r.id
        /\ ManualTitle(r)
        /\ u.filename # r.filename
        /\ u.mtime # r.mtime
        /\ u.title = r.title

\* C22: when a commit of either mode changes the filename of a row whose
\* title was what the stored filename generates, the title becomes what the
\* new filename generates.
C22_TitleRegenerated ==
    [][(bpc # "idle" \/ spc # "idle")
          => \A r \in catalog : r.title = generate_title_from_filename(r.filename)
                => \A q \in catalog' : (q.id = r.id /\ q.filename # r.filename)
                      => q.title = generate_title_from_filename(q.filename)]_vars

\* ---------------------------------------------------- the depth of a file
\* The observer is scheduled on the root with recursive=True (watcher.py:98):
\* it reports changes at every depth.  PT lies in the root itself, PD three
\* levels down, PX in a category directory.
DepthPaths == {PX, PT, PD}

\* Event mode over files at every depth, with a database that works.
NextDepth ==
    \/ \E p \in DepthPaths, v \in UNION {Allowed(q) : q \in Locs} : bpc = "idle" /\ FsChange(p, v)
    \/ \E t \in {"created", "modified"}, p \in DepthPaths : QueueEvent(t, p) /\ UNCHANGED wvars
    \/ CollectEvent /\ UNCHANGED wvars
    \/ DispatchCollected /\ UNCHANGED wvars
    \/ HandleEvent("none")
    \/ CommitBatch("none")
    \/ DispatchReturn /\ UNCHANGED wvars

SpecDepth == Init /\ [][NextDepth]_vars

\* The file lies in a category directory: <root>/<category>/<file>.
TwoLevels(p) == Len(Parts(p)) = 2

\* C23: every row of the catalog is about a file that lies exactly two
\* levels below the root: no event about a file in the root itself or deeper
\* down creates or updates a row.
C23_OnlyTwoLevelsIndexed == \A r \in catalog : TwoLevels(r.file_path)

\* Path.parent.name: the name of the directory the file lies in; the root
\* itself is /r.
ParentName(p) == IF Len(Parts(p)) = 1 THEN "r" ELSE Parts(p)[Len(Parts(p)) - 1]

\* C24: the category of every row is the name of the directory that its
\* file_path lies in.  Neither mode changes a row's file_path, and both write
\* the category whenever they write the row, so the rows of the catalog are
\* as they were last written.
C24_CategoryIsParentName == \A r \in catalog : r.category = ParentName(r.file_path)

\* ------------------------------------------------- per-file errors of a scan
\* Full syncs over a storage root that stays and a database that works: what
\* can go wrong is tied to one file, which vanishes between is_file() and
\* stat() or is reached twice, under its own name and through a link.
NextScan ==
    \/ \E p \in Locs, v \in UNION {Allowed(q) : q \in Locs} : spc = "idle" /\ FsChange(p, v)
    \/ SyncBegin("none") /\ UNCHANGED wvars
    \/ \E o \in Orders(ScanSet), v \in SUBSET {PX, PS} : SyncScan(o, v)
    \/ SyncDelete("none")
    \/ SyncCommit("none")
    \/ SyncReturn /\ UNCHANGED wvars

SpecScan == Init /\ [][NextScan]_vars

\* C25: with nothing wrong but what is tied to single files, no full sync is
\* aborted: each gets to its commit and returns its statistics.
C25_PerFileErrorsDoNotAbort == spc = "done" => sres.out = "ok"

\* ------------------------------------------- the health monitor's endpoints
\* deque(maxlen=1000)
processing_times_maxlen == 1000

MaxDay == 1
MaxCount == 2

\* The worker's process state: what a request to the monitor leaves alone.
pvars == <<cfg, running, wpc, observer, stops, health, ctask, ptask, elapsed,
           held, slept, ages, caught, pending, isync, mark, seen>>

\* _check_database_connectivity.  db is what db_manager.health_check() does:
\* "up" (status healthy), "down" (status unhealthy), "raising".
CheckDatabase(m, db) ==
    IF ~m.db_manager THEN FALSE
    ELSE IF db = "raising" THEN FALSE
    ELSE db = "up"

\* _check_watcher_status.  alive is what is_alive() does: "yes", "no",
\* "raising".
CheckWatcher(m, alive) ==
    IF m.watcher_observer = "none" THEN FALSE
    ELSE IF m.watcher_observer = "other" THEN FALSE
    ELSE IF alive = "raising" THEN FALSE
    ELSE alive = "yes"

\* status is "healthy" whenever the database answers.
StatusIgnoresWatcher(database_connected, watcher_active) ==
    IF database_connected THEN "healthy" ELSE "unhealthy"

\* status = "healthy" if database_connected and watcher_active else
\* "unhealthy" (health.py:81)
Status(database_connected, watcher_active) ==
    IF database_connected /\ watcher_active THEN "healthy" ELSE "unhealthy"

\* _daily_stats_reset
DailyStatsReset(m) ==
    [m EXCEPT !.files_processed_today = 0, !.files_added_today = 0,
              !.files_updated_today = 0, !.files_removed_today = 0]

\* The counters are never reset.
CheckDailyResetNever(m, date) == m

\* _check_daily_reset
CheckDailyReset(m, date) ==
    IF date # m.current_date
    THEN DailyStatsReset([m EXCEPT !.current_date = date])
    ELSE m

\* GET /health
HealthCheck ==
    /\ monitor' = CheckDailyReset(monitor, world.date)
    /\ LET database_connected == CheckDatabase(monitor, world.db)
           watcher_active == CheckWatcher(monitor, world.alive)
       IN resp' = [op |-> "health",
                   status |-> Status(database_connected, watcher_active),
                   last_sync |-> monitor.last_sync,
                   database_connected |-> database_connected,
                   watcher_active |-> watcher_active]
    /\ UNCHANGED <<world, evars, pvars>>

\* set_database_manager
SetDatabaseManager ==
    /\ ~monitor.db_manager
    /\ monitor' = [monitor EXCEPT !.db_manager = TRUE]
    /\ UNCHANGED <<world, resp, evars, pvars>>

\* set_watcher_observer
SetWatcherObserver(o) ==
    /\ o # monitor.watcher_observer
    /\ monitor' = [monitor EXCEPT !.watcher_observer = o]
    /\ UNCHANGED <<world, resp, evars, pvars>>

\* The database goes away, fails or comes back.
DbChange(v) ==
    /\ v # world.db
    /\ world' = [world EXCEPT !.db = v]
    /\ UNCHANGED <<monitor, resp, evars, pvars>>

\* The observer thread dies, or is_alive() starts or stops raising.
ObserverChange(v) ==
    /\ v # world.alive
    /\ world' = [world EXCEPT !.alive = v]
    /\ UNCHANGED <<monitor, resp, evars, pvars>>

\* Midnight UTC.
DayPasses ==
    /\ world.date < MaxDay
    /\ world' = [world EXCEPT !.date = @ + 1]
    /\ UNCHANGED <<monitor, resp, evars, pvars>>

\* A HealthMonitor on its own, as constructed with or without a database
\* manager and an observer; the worker it belongs to has not started.
InitHealth ==
    /\ InitEngine
    /\ cfg = DefaultConfig
    /\ running = FALSE
    /\ wpc = "new"
    /\ observer = "new"
    /\ stops = 0
    /\ health = "off"
    /\ ctask = "off"
    /\ ptask = "off"
    /\ elapsed = 0
    /\ held = 0
    /\ slept = 0
    /\ ages = <<>>
    /\ caught = {}
    /\ pending = 0
    /\ isync = "none"
    /\ mark = 0
    /\ seen = NoNotification
    /\ monitor \in {HealthMonitor(d, o, 0) : d \in BOOLEAN, o \in {"none", "observer", "other"}}
    /\ world \in [date : {0}, db : {"up", "down", "raising"}, alive : {"yes", "no", "raising"}]
    /\ resp = NoResponse

NextHealth ==
    \/ HealthCheck
    \/ SetDatabaseManager
    \/ \E o \in {"none", "observer", "other"} : SetWatcherObserver(o)
    \/ \E v \in {"up", "down", "raising"} : DbChange(v)
    \/ \E v \in {"yes", "no", "raising"} : ObserverChange(v)
    \/ DayPasses

SpecHealth == InitHealth /\ [][NextHealth]_vars

\* The database check succeeds: a manager is attached and its health_check()
\* answers with status healthy.
DatabaseOk == monitor.db_manager /\ world.db = "up"

\* The watcher is alive: an observer is attached and its is_alive() is true.
WatcherOk == monitor.watcher_observer = "observer" /\ world.alive = "yes"

\* C26: whenever GET /health answers, the status is "healthy" if the
\* database check succeeded and the watcher is alive, and "unhealthy" in
\* every other case: a check that is false, raises, or has nothing to look at.
C26_HealthyIffBoth ==
    [][HealthCheck
          => /\ resp'.status \in {"healthy", "unhealthy"}
             /\ resp'.status = "healthy" <=> (DatabaseOk /\ WatcherOk)]_vars

\* /health has answered "unhealthy" with the database up and an observer
\* attached whose is_alive() raises.
C26_Witness ==
    /\ resp.op = "health"
    /\ resp.status = "unhealthy"
    /\ DatabaseOk
    /\ monitor.watcher_observer = "observer"
    /\ world.alive = "raising"

RECURSIVE Sum(_)
\* sum(self._processing_times), added up by halves.
Sum(w) ==
    IF w = <<>> THEN 0
    ELSE IF Len(w) = 1 THEN w[1]
    ELSE LET h == Len(w) \div 2
         IN Sum(SubSeq(w, 1, h)) + Sum(SubSeq(w, h + 1, Len(w)))

\* _calculate_average_processing_time: 0.0 without samples, else
\* sum / len, kept as the fraction <<numerator, denominator>>.
CalculateAverageProcessingTime(w) ==
    IF w = <<>> THEN <<0, 1>> ELSE <<Sum(w), Len(w)>>

\* GET /stats
GetStatistics ==
    /\ monitor' = CheckDailyReset(monitor, world.date)
    /\ resp' = [op |-> "stats",
                status |-> "none",
                files_processed_today |-> monitor'.files_processed_today,
                files_added_today |-> monitor'.files_added_today,
                files_updated_today |-> monitor'.files_updated_today,
                files_removed_today |-> monitor'.files_removed_today,
                last_full_sync |-> monitor'.last_full_sync,
                average_processing_time_ms |->
                    CalculateAverageProcessingTime(monitor'.processing_times),
                processed_events |-> monitor'.total_processed_events,
                failed_events |-> monitor'.total_failed_events]
    /\ UNCHANGED <<world, evars, pvars>>

\* ------------------------------------------- the monitor inside the worker
\* The worker up and serving, with a debounce delay of half a second.
InitMonitored ==
    /\ InitEngine
    /\ cfg = [DefaultConfig EXCEPT !.event_debounce_delay = 1]
    /\ running = TRUE
    /\ wpc = "gather"
    /\ observer = "started"
    /\ stops = 0
    /\ health = "serving"
    /\ ctask = "loop"
    /\ ptask = "sleep"
    /\ elapsed = 0
    /\ held = 0
    /\ slept = 0
    /\ ages = <<>>
    /\ caught = {}
    /\ pending = 0
    /\ isync = "none"
    /\ mark = 0
    /\ seen = NoNotification
    /\ MonitorInit

\* The worker at work, batches and periodic syncs, while its health server
\* answers /health and /stats and the database comes and goes.  A periodic
\* sync begins between two batches.
NextMonitored ==
    \/ Emit("deleted", PX, FALSE)
    \/ Tick
    \/ LoopTest
    \/ GetEvent
    \/ DebounceEnd
    \/ DispatchBatch
    \/ ReturnEmpty
    \/ RetryBatch
    \/ \E f \in {"none", "dbkill"} : HandleEvent(f)
    \/ CommitBatch("none")
    \/ BatchDone
    \/ SleepEnd
    \/ PeriodicTest
    \/ bpc = "idle" /\ PeriodicSync("none")
    \/ \E o \in Orders(ScanSet) : SyncScan(o, {})
    \/ SyncCommit("none")
    \/ PeriodicReturn
    \/ health = "serving" /\ HealthCheck
    \/ health = "serving" /\ GetStatistics
    \/ \E v \in {"up", "down"} : DbChange(v)

SpecMonitored == InitMonitored /\ [][NextMonitored]_vars

\* C27: whenever the running worker's /health answers while the database
\* is reachable and the observer thread is alive, the status is "healthy".
C27_HealthyWhileBothUp ==
    [][(HealthCheck /\ running /\ observer = "started" /\ world.db = "up")
          => resp'.status = "healthy"]_vars

\* C28: what the worker did shows in the monitor's counters: once a batch
\* has completed, processed_events is positive and the window holds a
\* processing time; once a batch has been given up, failed_events is
\* positive; once a full sync has returned its statistics, last_full_sync is
\* set.
C28_CountersFollowWork ==
    /\ [][(BatchDone /\ bres = "ok")
            => /\ monitor'.total_processed_events > 0
               /\ monitor'.processing_times # <<>>]_vars
    /\ [][(BatchDone /\ bres = "dropped") => monitor'.total_failed_events > 0]_vars
    /\ [][(PeriodicReturn /\ sres.out = "ok") => monitor'.last_full_sync # None]_vars

\* --------------------------------------------------- the monitor's counters
\* deque.append with maxlen: a full window drops its oldest sample ...
DequeAppendUnbounded(w, x) == Append(w, x)

\* ... so that it never holds more than maxlen.
DequeAppend(w, x) ==
    IF Len(w) < processing_times_maxlen THEN Append(w, x) ELSE Append(Tail(w), x)

\* How many of the event types are t.
CountOf(types, t) == Cardinality({i \in 1..Len(types) : types[i] = t})

\* update_stats(**kw) on monitor m on day date: kw is a record of the
\* keyword arguments given.
update_stats(m, kw, date) ==
    LET given(k) == k \in DOMAIN kw
        m0 == CheckDailyReset(m, date)
        m1 == IF given("processed_events")
              THEN [m0 EXCEPT !.total_processed_events = @ + kw.processed_events,
                              !.files_processed_today = @ + kw.processed_events]
              ELSE m0
        m2 == IF given("failed_events")
              THEN [m1 EXCEPT !.total_failed_events = @ + kw.failed_events]
              ELSE m1
        m3 == IF given("last_sync") THEN [m2 EXCEPT !.last_sync = kw.last_sync] ELSE m2
        m4 == IF given("last_full_sync")
              THEN [m3 EXCEPT !.last_full_sync = kw.last_full_sync]
              ELSE m3
        m5 == IF given("processing_time_ms")
              THEN [m4 EXCEPT !.processing_times = DequeAppend(@, kw.processing_time_ms)]
              ELSE m4
        m6 == IF given("sync_stats")
              THEN [m5 EXCEPT !.files_added_today = @ + kw.sync_stats.files_added,
                              !.files_updated_today = @ + kw.sync_stats.files_updated,
                              !.files_removed_today = @ + kw.sync_stats.files_removed,
                              !.files_processed_today = @ + kw.sync_stats.files_scanned,
                              !.last_full_sync = date]
              ELSE m5
    IN IF given("event_types")
       THEN [m6 EXCEPT !.files_added_today = @ + CountOf(kw.event_types, "created"),
                       !.files_updated_today = @ + CountOf(kw.event_types, "modified"),
                       !.files_removed_today = @ + CountOf(kw.event_types, "deleted")]
       ELSE m6

\* health_monitor.update_stats(**kw)
UpdateStats(kw) ==
    /\ monitor' = update_stats(monitor, kw, world.date)
    /\ UNCHANGED <<world, resp, evars, pvars>>

\* The calls of update_stats that are tried: what a completed batch, a batch
\* given up, a sync and a full sync have to report.
UpdateCalls ==
    {[processed_events |-> 1, processing_time_ms |-> 2, event_types |-> <<"created">>],
     [failed_events |-> 1],
     [last_sync |-> 1],
     [sync_stats |-> SyncStats(1, 0, 1, 1, 0)]}

\* The counters and the window stay within what is explored.
Explored(m) ==
    /\ m.files_processed_today <= MaxCount
    /\ m.files_added_today <= MaxCount
    /\ m.files_updated_today <= MaxCount
    /\ m.files_removed_today <= MaxCount
    /\ m.total_processed_events <= MaxCount
    /\ m.total_failed_events <= MaxCount
    /\ Len(m.processing_times) <= MaxCount

\* A monitor that is updated and read while the days pass.
NextStats ==
    \/ \E kw \in UpdateCalls :
          Explored(update_stats(monitor, kw, world.date)) /\ UpdateStats(kw)
    \/ HealthCheck
    \/ GetStatistics
    \/ DayPasses

SpecStats == Init /\ [][NextStats]_vars

\* The four "today" counters.
Today(m) ==
    <<m.files_processed_today, m.files_added_today, m.files_updated_today,
      m.files_removed_today>>

\* What lasts: the lifetime totals, the window and the timestamps.
Lifetime(m) ==
    <<m.total_processed_events, m.total_failed_events, m.processing_times,
      m.last_sync, m.last_full_sync>>

\* The UTC date is not the one of the last check.
Rollover == world.date # monitor.current_date

\* C29: every read (/health, /stats) and every update_stats call checks the
\* date.  On another date than that of the last check a read leaves the four
\* today counters at zero, and an update leaves in them only what it adds
\* itself; on the same date a read leaves them as they are.  The reset
\* touches neither the lifetime totals nor the window nor the timestamps: a
\* read leaves them unchanged, an update adds to the totals as it does
\* within a day.
C29_DailyReset ==
    /\ [][(HealthCheck \/ GetStatistics)
            => /\ monitor'.current_date = world.date
               /\ Today(monitor') = IF Rollover THEN <<0, 0, 0, 0>> ELSE Today(monitor)
               /\ Lifetime(monitor') = Lifetime(monitor)]_vars
    /\ [][\A kw \in UpdateCalls : (UpdateStats(kw) /\ Rollover)
            => LET fresh == update_stats(HealthMonitor(FALSE, "none", world.date), kw,
                                         world.date)
               IN /\ monitor'.current_date = world.date
                  /\ Today(monitor') = Today(fresh)
                  /\ monitor'.total_processed_events
                        = monitor.total_processed_events + fresh.total_processed_events
                  /\ monitor'.total_failed_events
                        = monitor.total_failed_events + fresh.total_failed_events
                  /\ monitor'.processing_times
                        = monitor.processing_times \o fresh.processing_times]_vars

\* /stats has answered on the second day: the today counters are zero, while
\* what was counted and recorded on the first day is still there.
C29_Witness ==
    /\ resp.op = "stats"
    /\ monitor.current_date = 1
    /\ Today(monitor) = <<0, 0, 0, 0>>
    /\ resp.processed_events > 0
    /\ resp.failed_events > 0
    /\ monitor.processing_times # <<>>
    /\ monitor.last_full_sync = 0

\* ------------------------------------------------ the processing-time window
\* As many batches are recorded as fill the window and push two samples out.
MaxSamples == 1002

\* The batches that may take 2 ms rather than 1: the first two, which are
\* the ones pushed out, and those recorded when the window is full.
Varied == {1, 2} \cup (processing_times_maxlen..MaxSamples)

\* What the k-th batch may have taken.
SampleValues(k) == IF k \in Varied THEN {1, 2} ELSE {1}

\* What a completed batch reports: one event processed, in v ms.
BatchCall(v) == [processed_events |-> 1, processing_time_ms |-> v]

\* Batch after batch is recorded; then /stats is read.
NextWindow ==
    \/ \E v \in SampleValues(monitor.total_processed_events + 1) :
          /\ monitor.total_processed_events < MaxSamples
          /\ resp.op = "none"
          /\ UpdateStats(BatchCall(v))
    \/ GetStatistics

SpecWindow == Init /\ [][NextWindow]_vars

\* The last k elements of w.
Last(w, k) == SubSeq(w, Len(w) - k + 1, Len(w))

\* C30: the window never holds more than 1,000 samples; after n recorded
\* batches it holds min(n, 1000) of them, and each recording leaves in it the
\* most recent ones of the window before with the new sample at the end, in
\* arrival order; the average that /stats reports is the sum of the samples
\* in the window over their number, and 0 when there are none.
C30_WindowBounded ==
    /\ [](/\ Len(monitor.processing_times) <= 1000
          /\ Len(monitor.processing_times) = Min(monitor.total_processed_events, 1000))
    /\ [][\A v \in {1, 2} : UpdateStats(BatchCall(v))
            => monitor'.processing_times
                 = Last(Append(monitor.processing_times, v),
                        Min(Len(monitor.processing_times) + 1, 1000))]_vars
    /\ [](resp.op = "stats"
            => LET w == monitor.processing_times
                   avg == resp.average_processing_time_ms
               IN /\ avg[2] > 0
                  /\ avg[1] * (IF w = <<>> THEN 1 ELSE Len(w)) = Sum(w) * avg[2])

\* /stats has answered after 1,002 batches, of which the first took 2 ms and
\* the last took 2 ms: the window is full and the first batch is not in it.
C30_Witness ==
    /\ resp.op = "stats"
    /\ monitor.total_processed_events = MaxSamples
    /\ Len(monitor.processing_times) = processing_times_maxlen
    /\ monitor.processing_times[processing_times_maxlen] = 2
    /\ resp.average_processing_time_ms = <<processing_times_maxlen + 1, processing_times_maxlen>>

\* ------------------------------------------------- the watcher's callbacks
\* The observer delivers notifications of every type about files and
\* directories, as long as the queue has room.
NextWatch == \E n \in Notifications, raises \in BOOLEAN : OnNotification(n, raises)

SpecWatch == Init /\ [][NextWatch]_vars

\* C31: a callback of the watcher puts an event on the queue only for a
\* created, modified or deleted notification about a path that is no
\* directory and has a supported extension, whatever its case: then the event
\* of that type and path is appended.  A notification about a directory or an
\* unsupported file, or of another type, leaves the queue as it is, and so
\* does a callback in which building the event raises: it ends in its except
\* clause, and nothing leaves the handler.
C31_OnlySupportedFilesQueued ==
    [][NextWatch =>
          /\ seen'.out \in {"queued", "ignored", "caught"}
          /\ seen'.out = "queued" =>
                /\ seen'.event_type \in {"created", "modified", "deleted"}
                /\ ~seen'.is_directory
                /\ Lower(Suffix(seen'.src_path)) \in supported_extensions
                /\ channel' = Append(channel, FileEvent(seen'.event_type, seen'.src_path))
          /\ seen'.out # "queued" => channel' = channel
          /\ (seen'.is_directory \/ ~is_supported_image_file(seen'.src_path))
                => seen'.out = "ignored"]_vars

\* The queue holds an event about s.JPG, and the notification that followed
\* it, about a directory named like a picture, was ignored.
C31_Witness ==
    /\ seen.is_directory
    /\ seen.src_path = PDdir
    /\ seen.out = "ignored"
    /\ \E i \in 1..Len(channel) : channel[i].file_path = PS

\* ------------------------------------------------- the end of the debounce
\* C32: when the debounce sleep ends with events on the queue, the batch not
\* yet full, running set and less than batch_timeout gone since the batch's
\* first event was received, the collection goes on: the condition of its
\* while holds, and the queued events are taken into the batch.
C32_DrainedAfterDebounce ==
    [][(/\ DebounceEnd
        /\ channel # <<>>
        /\ Len(batch) < cfg.max_batch_size
        /\ held < batch_timeout
        /\ running)
          => (Len(batch') < cfg.max_batch_size /\ elapsed' < batch_timeout /\ running')]_vars

\* ------------------------------------------------ the full sync's statistics
\* The commit of a full sync succeeds.
SyncCommits == spc \in {"scanned", "commit"} /\ spc' = "done" /\ sres'.out = "ok"

\* C33: a full sync that commits returns statistics that count what it did:
\* files_scanned is the number of supported regular files its walk met in the
\* category directories, files_added the number of rows the commit inserts,
\* files_updated the number of rows it leaves with another modification time,
\* files_removed the number of rows it deletes; added, updated and errors
\* together do not exceed scanned, and the catalog grows by added - removed.
C33_StatsCountTheWork ==
    /\ [][(spc = "loaded" /\ spc' = "scanned")
            => stats'.files_scanned = Cardinality(ScanSet)]_vars
    /\ [][SyncCommits =>
            /\ stats' = stats
            /\ stats.files_added = Cardinality({q \in catalog' : q.id \notin Ids(catalog)})
            /\ stats.files_updated =
                  Cardinality({r \in catalog : \E q \in catalog' :
                                  q.id = r.id /\ q.mtime # r.mtime})
            /\ stats.files_removed = Cardinality({r \in catalog : r.id \notin Ids(catalog')})
            /\ stats.files_added + stats.files_updated + stats.errors <= stats.files_scanned
            /\ Cardinality(catalog') =
                  Cardinality(catalog) + stats.files_added - stats.files_removed]_vars

\* A full sync has committed that met two files, one of which vanished under
\* it, updated a row and removed one.
C33_Witness ==
    /\ spc = "done" /\ sres.out = "ok"
    /\ stats.files_scanned = 2
    /\ stats.errors = 1
    /\ stats.files_updated = 1
    /\ stats.files_removed = 1

\* ------------------------------------------------- events that change nothing
\* The event is one of those the handlers return from without a write: the
\* file of a CREATED or MODIFIED event is gone, the path of a CREATED event
\* has a row, or the file of a MODIFIED event has the modification time its
\* row has.
NoOpCase(e) ==
    \/ e.event_type \in {"created", "modified"} /\ ~Exists(e.file_path)
    \/ e.event_type = "created" /\ e.file_path \in PathsOf(catalog)
    \/ /\ e.event_type = "modified"
       /\ \E r \in catalog : r.file_path = e.file_path /\ r.mtime = StatMtime(e.file_path)

\* C34: a batch all of whose events are such cases, with no file vanishing
\* while it is handled (the disk is as the handlers found it), comes to its
\* commit with nothing to insert, update or delete; the commit succeeds and
\* leaves the catalog as it was.
C34_NoOpEvents ==
    [][(/\ CommitBatch("none")
        /\ "oserror" \notin ResultsOf(applied)
        /\ \A i \in 1..Len(batch) : NoOpCase(batch[i]))
          => /\ sess["batch"] = OpenSession
             /\ \A i \in 1..Len(applied) : applied[i].res \in {"gone", "exists", "same"}
             /\ bres' = "ok"
             /\ catalog' = catalog]_vars

\* A batch of a CREATED event about a file that has a row and a MODIFIED event
\* about the same, untouched file has been committed.
C34_Witness ==
    /\ bpc = "done" /\ bres = "ok"
    /\ Len(applied) = 2
    /\ applied[1].res = "exists"
    /\ applied[2].res = "same"
    /\ catalog # {}

\* ------------------------------------------------------ one event at a time
\* process_file_event called with any event, over a database that may fail
\* and files that come, go and vanish under the handler; its caller gets the
\* return or the exception, and calls again.
NextSingle ==
    \/ \E p \in {PX, PS}, v \in UNION {Allowed(q) : q \in Locs} : bpc = "idle" /\ FsChange(p, v)
    \/ \E e \in Events, f \in HandlerFaults, c \in {"none", "db"} : ProcessFileEvent(e, f, c)
    \/ DispatchReturn /\ UNCHANGED wvars

SpecSingle == Init /\ [][NextSingle]_vars

\* C35: process_file_event does all of its event or nothing: when the handler
\* or the commit raises, the session is rolled back once and closed, the
\* catalog is as it was, and the exception reaches the caller; an event about
\* an unsupported file returns with no session opened; any other call has one
\* session and, when nothing raised, one commit.
C35_SingleEventAllOrNothing ==
    [][(bpc = "idle" /\ bpc' = "done") =>
          LET e == batch'[1]
              failed == \/ applied' # <<>> /\ applied'[1].res \in {"dberror", "oserror"}
                        \/ bres' = "raised"
          IN /\ bres' \in {"ok", "raised"}
             /\ ~is_supported_image_file(e.file_path)
                   => (opened' = 0 /\ commitCalls' = 0 /\ bres' = "ok" /\ catalog' = catalog)
             /\ is_supported_image_file(e.file_path) => opened' = 1
             /\ failed => /\ bres' = "raised"
                          /\ rollbacks' = 1
                          /\ catalog' = catalog
             /\ ~failed => (rollbacks' = 0 /\ (opened' = 1 => commitCalls' = 1))
             /\ sess'["batch"] = ClosedSession]_vars

\* The handler of an event added a row and the commit raised: the call has
\* raised and the row is not in the catalog.
C35_Witness ==
    /\ bpc = "done" /\ bres = "raised"
    /\ Len(batch) = 1
    /\ applied[1].res = "added"
    /\ commitCalls = 1
    /\ rollbacks = 1
    /\ \A r \in catalog : r.file_path # Resolve(batch[1].file_path)

\* ------------------------------------------------- the periodic loop's stop
\* C36: once running has been cleared (start() has set it before), no full
\* sync begins; the periodic loop enters a sync only from its interval sleep
\* with running set, leaves the sleep for its while when running is cleared,
\* and leaves the while by ending.
C36_NoSyncAfterStop ==
    /\ [][(~running /\ wpc # "new" /\ spc = "idle") => spc' = "idle"]_vars
    /\ [][(ptask # "sync" /\ ptask' = "sync") => (ptask = "sleep" /\ running)]_vars
    /\ [][(~running /\ ptask = "sleep" /\ ptask' # "sleep") => ptask' = "loop"]_vars
    /\ [][(~running /\ ptask = "loop" /\ ptask' # "loop") => ptask' = "exited"]_vars

\* Running was cleared while the periodic loop was in its interval sleep,
\* after the initial sync and with no sync under way.
C36_Witness ==
    /\ ~running
    /\ wpc = "gather"
    /\ ptask = "sleep"
    /\ isync = "ok"
    /\ spc = "idle"

\* -------------------------------------------------- what becomes of an event
\* C37: every event the consumer takes off the queue is appended to the batch
\* in hand; a batch in hand only grows until the collection ends, is then
\* handed whole to the dispatcher, once, and is let go only when the dispatch
\* has returned; a collection begins with no event in hand, so no event is in
\* two batches; and when the debounce sleep ends the batch is as it was,
\* whether or not running was cleared meanwhile, so that the loop does not end
\* with an event in hand.
C37_EventsConserved ==
    /\ [](ctask \in {"off", "loop", "nap", "backoff", "exited"} => batch = <<>>)
    /\ [][Len(channel') < Len(channel)
            => (channel' = Tail(channel) /\ batch' = Append(batch, Head(channel)))]_vars
    /\ [][(batch # <<>> /\ batch' # batch)
            => \/ channel # <<>> /\ batch' = Append(batch, Head(channel))
               \/ batch' = <<>> /\ ctask = "call" /\ bpc = "done"]_vars
    /\ [][(ctask = "debounce" /\ ctask' # "debounce")
            => (ctask' = "collect" /\ batch' = batch)]_vars
    /\ [][(ctask = "collect" /\ ctask' \notin {"collect", "debounce"})
            => IF batch = <<>> THEN ctask' = "nap"
               ELSE (ctask' = "call" /\ batch' = batch /\ calls' = 1 /\ bpc' # "idle")]_vars
    /\ [][(ctask = "call" /\ ctask' = "call") => batch' = batch]_vars

\* Running was cleared after the batch's first event was taken: the batch is
\* dispatched with that event, although an event is queued, the batch is not
\* full and batch_timeout has not run out.
C37_Witness ==
    /\ ctask = "call"
    /\ ~running
    /\ Len(batch) = 1
    /\ channel # <<>>
    /\ Len(batch) < cfg.max_batch_size
    /\ elapsed < batch_timeout

\* ------------------------------------------------------ one batch at a time
\* C38: the consumer has one batch in flight at most.  A call of the engine
\* is under way or awaits its retry only while the consumer is inside
\* _process_event_batch_with_retry; meanwhile nothing is taken off the queue;
\* the consumer leaves the dispatch only when a call has succeeded or the
\* last of the retry_attempts calls has failed; and every event of the batch
\* in flight was emitted no later than any event still on the queue.
C38_OneBatchInFlight ==
    /\ [](bpc \in {"run", "wait", "done"} <=> ctask = "call")
    /\ [][Len(channel') < Len(channel)
            => (ctask = "collect" /\ bpc \in {"idle", "collect"} /\ calls = 0)]_vars
    /\ [][(ctask = "call" /\ ctask' # "call")
            => /\ bpc = "done"
               /\ \/ bres = "ok"
                  \/ bres = "dropped" /\ calls = RetryAttempts /\ fails = RetryAttempts]_vars
    /\ [](/\ Len(ages) = Len(batch) + Len(channel)
          /\ \A i \in 1..Len(batch) : \A j \in (Len(batch) + 1)..Len(ages) :
                ages[i] >= ages[j])

\* An event waits on the queue while the batch before it, which has failed
\* twice, is tried for the last time.
C38_Witness ==
    /\ ctask = "call"
    /\ bpc = "run"
    /\ calls = RetryAttempts
    /\ fails = RetryAttempts - 1
    /\ channel # <<>>
    /\ ages[1] > ages[Len(ages)]

\* --------------------------------------------- a file that cannot be read
\* The files whose metadata extraction fails in the walk that this step is:
\* those that are gone after it.
Failing == {p \in {it[2] : it \in ScanSet} : disk'[p] # disk[p]}

\* The files of the walk whose extraction succeeds.
Passing == {it[2] : it \in ScanSet} \ Failing

\* C39: a file that the walk of a full sync meets and whose metadata
\* extraction fails is counted in files_scanned and in errors, and its path is
\* among the found; the row it has (unless the same path is reached through
\* another entry whose extraction succeeds) is not written by the walk and is
\* no orphan; and the commit leaves every row as it was that the walk did not
\* write and that is no orphan.
C39_UnreadableFileKeepsRow ==
    /\ [][(spc = "loaded" /\ spc' = "scanned") =>
            /\ stats'.errors = Cardinality(Failing)
            /\ stats'.files_scanned = Cardinality(Failing) + Cardinality(Passing)
            /\ \A p \in Failing :
                  /\ Resolve(p) \in found'
                  /\ \A r \in existing :
                        (/\ r.file_path = Resolve(p)
                         /\ \A q \in Passing : Resolve(q) # Resolve(p))
                           => /\ r.id \notin Ids(sess'["sync"].dirty)
                              /\ r \notin Orphans(existing, found')]_vars
    /\ [][SyncCommits =>
            \A r \in existing :
                (r.id \notin Ids(sess["sync"].dirty) \cup Ids(sess["sync"].upd)
                    /\ r \notin Orphans(existing, found))
                  => r \in catalog']_vars

\* A full sync has committed in whose walk the one file met, which has a row,
\* could not be read: the row is as it was.
C39_Witness ==
    /\ spc = "done" /\ sres.out = "ok"
    /\ stats = SyncStats(1, 0, 0, 0, 1)
    /\ found = {PX}
    /\ \E r \in catalog : r.file_path = PX /\ r.mtime = 1
    /\ existing = catalog

\* ------------------------------------------------------- the key of a row
\* C40: the handlers find a row under the path they stored it under.  A batch
\* of CREATED(p) and then CREATED(p) or DELETED(p), about a file that is on
\* disk and has no row, whether or not p is its resolved path, is committed;
\* after CREATED, CREATED the file has one row, and after CREATED, DELETED it
\* has none.
C40_LookupKeyIsStoreKey ==
    [][(/\ CommitBatch("none")
        /\ Len(batch) = 2
        /\ batch[1].event_type = "created"
        /\ batch[2].event_type \in {"created", "deleted"}
        /\ batch[2].file_path = batch[1].file_path
        /\ IsFile(batch[1].file_path)
        /\ "oserror" \notin ResultsOf(applied)
        /\ RowsFor(batch[1].file_path) = {})
          => LET p == batch[1].file_path
                 rows == {r \in catalog' : r.file_path \in {p, Resolve(p)}}
             IN /\ bres' = "ok"
                /\ IF batch[2].event_type = "created"
                   THEN Cardinality(rows) = 1
                   ELSE rows = {}]_vars

====
